---------------------------- MODULE Spec2Model ----------------------------
(***************************************************************************)
(* The L2 shortest-path-first controller of part2/p2_l2spf.py              *)
(* (class L2SPFController): MAC learning, topology discovery, path         *)
(* resolution with optional ECMP, flow cache and rule installation.        *)
(***************************************************************************)
EXTENDS Integers, Sequences, FiniteSets, TLC

(***************************************************************************)
(* Bounds of the model.                                                    *)
(***************************************************************************)
\* Spec: packet-in notifications (any frame) in one behaviour
MaxPkts == 2
\* SpecFlows, SpecLearn: packet-in notifications (unicast IPv4 frames)
MaxFlowPkts == 3
\* SpecPaths: edges of the graph handed to the path resolver
MaxEdges == 5
\* SpecPaths: largest edge weight of that graph
MaxWeight == 2

(***************************************************************************)
(* The network the controller is attached to: three switches in a line,    *)
(* s1 - s2 - s3, and a fourth switch s4 that joins late and has no link;   *)
(* port 1 of every switch is a host port.                                  *)
(***************************************************************************)
Switches == {1, 2, 3, 4}
PortsOf(dpid) == IF dpid = 2 THEN {1, 2, 3}
                 ELSE IF dpid = 4 THEN {1} ELSE {1, 2}

\* directed links <<src dpid, src port, dst dpid, dst port>> as
\* ryu.topology reports them (one Link object per direction)
PhysLinks ==
  { <<1, 2, 2, 2>>, <<2, 2, 1, 2>>,
    <<2, 3, 3, 2>>, <<3, 2, 2, 3>> }

\* MAC addresses, as the sequence of their octets (Ryu prints them as
\* lower-case hex octets joined by ':')
MacH1 == <<0, 0, 0, 0, 0, 1>>
MacH2 == <<0, 0, 0, 0, 0, 2>>
MacBroadcast == <<255, 255, 255, 255, 255, 255>>
MacMcastV4 == <<1, 0, 94, 0, 0, 1>>
MacMcastV6 == <<51, 51, 0, 0, 0, 1>>
MacMcastStp == <<1, 128, 194, 0, 0, 0>>
MacLldp == <<1, 128, 194, 0, 0, 14>>

HostMacs == {MacH1, MacH2}
DstMacs == HostMacs \cup {MacBroadcast, MacMcastV4, MacMcastV6, MacMcastStp}

\* the I/G bit of the first octet: group (broadcast or multicast) address
IsGroupMac(mac) == mac[1] % 2 = 1

\* str.startswith on the printed address: a prefix of whole octets
StartsWith(mac, prefix) ==
  /\ Len(prefix) <= Len(mac)
  /\ SubSeq(mac, 1, Len(prefix)) = prefix

\* IgnoredDst without the 'ff:ff' prefix
IgnoredDstNoBroadcast(dst) ==
  \/ StartsWith(dst, <<51, 51>>)
  \/ StartsWith(dst, <<1, 0, 94>>)

\* line 178: dst.startswith('33:33') or ('01:00:5e') or ('ff:ff')
IgnoredDst(dst) ==
  \/ StartsWith(dst, <<51, 51>>)
  \/ StartsWith(dst, <<1, 0, 94>>)
  \/ StartsWith(dst, <<255, 255>>)

\* no TCP header (tcp_pkt is None)
NoTcp == <<>>
\* a TCP header is the pair <<source port, destination port>>
TcpFlows == { <<1000, 80>> }

(***************************************************************************)
(* Node names: f's{dpid}' and int(name[1:]).                               *)
(***************************************************************************)
NodeName(dpid) == <<"s", dpid>>
SwitchId(name) == name[2]

(***************************************************************************)
(* networkx.Graph: nodes and adjacency in insertion order.                 *)
(*   nodes : sequence of node names                                        *)
(*   adj   : node -> sequence of <<neighbour, weight>>                     *)
(***************************************************************************)
EmptyGraph == [nodes |-> <<>>, adj |-> <<>>]

SeqToSet(s) == { s[i] : i \in 1..Len(s) }

HasNode(G, n) == n \in SeqToSet(G.nodes)

Nbrs(G, n) == { G.adj[n][i][1] : i \in 1..Len(G.adj[n]) }

HasEdge(G, u, v) == HasNode(G, u) /\ v \in Nbrs(G, u)

EdgeWeight(G, u, v) ==
  LET i == CHOOSE k \in 1..Len(G.adj[u]) : G.adj[u][k][1] = v
  IN  G.adj[u][i][2]

AddNode(G, n) ==
  IF HasNode(G, n) THEN G
  ELSE [nodes |-> Append(G.nodes, n),
        adj |-> [m \in SeqToSet(G.nodes) \cup {n} |->
                   IF m = n THEN <<>> ELSE G.adj[m]]]

\* adj[u][v] = {'weight': w}: a dict update keeps the key's position
SetAdj(lst, v, w) ==
  IF \E k \in 1..Len(lst) : lst[k][1] = v
  THEN [k \in 1..Len(lst) |-> IF lst[k][1] = v THEN <<v, w>> ELSE lst[k]]
  ELSE Append(lst, <<v, w>>)

AddEdge(G, u, v, w) ==
  LET G1 == AddNode(AddNode(G, u), v)
      a1 == [G1.adj EXCEPT ![u] = SetAdj(@, v, w)]
      a2 == [a1 EXCEPT ![v] = SetAdj(@, u, w)]
  IN  [nodes |-> G1.nodes, adj |-> a2]

NumberOfNodes(G) == Len(G.nodes)

(***************************************************************************)
(* networkx.all_shortest_paths(G, source, target, weight='weight'):        *)
(* Dijkstra with predecessor lists, then the paths built from them.        *)
(***************************************************************************)
\* heappop on (distance, counter, node)
PopMin(fringe) ==
  CHOOSE t \in fringe :
    \A u \in fringe : t[1] < u[1] \/ (t[1] = u[1] /\ t[2] <= u[2])

DijkstraStart(source) ==
  [dist |-> <<>>,
   seen |-> (source :> 0),
   pred |-> (source :> <<>>),
   fringe |-> {<<0, 0, source>>},
   c |-> 1,
   err |-> "none"]

\* RelaxOne keeping only the first predecessor of a node: a path of equal
\* weight found later is not recorded
RelaxOneNoTies(st, v, u, cost) ==
  LET vu_dist == st.dist[v] + cost
  IN  IF u \in DOMAIN st.dist
      THEN IF vu_dist < st.dist[u]
           THEN [st EXCEPT !.err = "ValueError"]
           ELSE st
      ELSE IF u \notin DOMAIN st.seen \/ vu_dist < st.seen[u]
           THEN [st EXCEPT !.seen = (u :> vu_dist) @@ @,
                           !.fringe = @ \cup {<<vu_dist, st.c, u>>},
                           !.c = @ + 1,
                           !.pred = (u :> <<v>>) @@ @]
           ELSE st

\* the body of "for u, e in G_succ[v].items()" for one neighbour
RelaxOne(st, v, u, cost) ==
  LET vu_dist == st.dist[v] + cost
  IN  IF u \in DOMAIN st.dist
      THEN IF vu_dist < st.dist[u]
           THEN [st EXCEPT !.err = "ValueError"]
           ELSE IF vu_dist = st.dist[u]
                THEN [st EXCEPT !.pred = (u :> Append(st.pred[u], v)) @@ @]
                ELSE st
      ELSE IF u \notin DOMAIN st.seen \/ vu_dist < st.seen[u]
           THEN [st EXCEPT !.seen = (u :> vu_dist) @@ @,
                           !.fringe = @ \cup {<<vu_dist, st.c, u>>},
                           !.c = @ + 1,
                           !.pred = (u :> <<v>>) @@ @]
           ELSE IF vu_dist = st.seen[u]
                THEN [st EXCEPT !.pred = (u :> Append(st.pred[u], v)) @@ @]
                ELSE st

RECURSIVE Relax(_, _, _, _)
Relax(G, st, v, i) ==
  IF i > Len(G.adj[v]) \/ st.err # "none" THEN st
  ELSE Relax(G, RelaxOne(st, v, G.adj[v][i][1], G.adj[v][i][2]), v, i + 1)

RECURSIVE DijkstraLoop(_, _)
DijkstraLoop(G, st) ==
  IF st.fringe = {} \/ st.err # "none" THEN st
  ELSE LET t == PopMin(st.fringe)
           d == t[1]
           v == t[3]
           st1 == [st EXCEPT !.fringe = @ \ {t}]
       IN  IF v \in DOMAIN st.dist
           THEN DijkstraLoop(G, st1)
           ELSE DijkstraLoop(G,
                  Relax(G, [st1 EXCEPT !.dist = (v :> d) @@ @], v, 1))

DijkstraPredecessorAndDistance(G, source) ==
  DijkstraLoop(G, DijkstraStart(source))

\* _build_paths_from_predecessors: depth-first over the predecessor
\* lists from the target, a node already on the stack is skipped
RECURSIVE BuildFrom(_, _, _, _, _)
RECURSIVE BuildPreds(_, _, _, _, _, _)
BuildFrom(source, pred, node, tail, seen) ==
  (IF node = source THEN << <<node>> \o tail >> ELSE <<>>)
    \o BuildPreds(source, pred, node, tail, seen, 1)

BuildPreds(source, pred, node, tail, seen, i) ==
  IF i > Len(pred[node]) THEN <<>>
  ELSE LET nxt == pred[node][i]
       IN  (IF nxt \in seen THEN <<>>
            ELSE BuildFrom(source, pred, nxt, <<node>> \o tail,
                           seen \cup {nxt}))
             \o BuildPreds(source, pred, node, tail, seen, i + 1)

\* all_shortest_paths called with source and target exchanged
AllShortestPathsSwapped(G, source, target) ==
  IF ~HasNode(G, target)
  THEN [err |-> "NodeNotFound", paths |-> <<>>]
  ELSE LET st == DijkstraPredecessorAndDistance(G, target)
       IN  IF st.err # "none"
           THEN [err |-> st.err, paths |-> <<>>]
           ELSE IF source \notin DOMAIN st.pred
                THEN [err |-> "NetworkXNoPath", paths |-> <<>>]
                ELSE [err |-> "none",
                      paths |-> BuildFrom(target, st.pred, source,
                                          <<>>, {source})]

\* the list of all minimum-weight paths, or the exception raised
AllShortestPaths(G, source, target) ==
  IF ~HasNode(G, source)
  THEN [err |-> "NodeNotFound", paths |-> <<>>]
  ELSE LET st == DijkstraPredecessorAndDistance(G, source)
       IN  IF st.err # "none"
           THEN [err |-> st.err, paths |-> <<>>]
           ELSE IF target \notin DOMAIN st.pred
                THEN [err |-> "NetworkXNoPath", paths |-> <<>>]
                ELSE [err |-> "none",
                      paths |-> BuildFrom(source, st.pred, target,
                                          <<>>, {target})]


(***************************************************************************)
(* config.json: the node list, the weight matrix and the ecmp flag.        *)
(***************************************************************************)
ConfigNodes == <<NodeName(1), NodeName(2), NodeName(3)>>
ConfigWeights == << <<0, 1, 2>>,
                    <<1, 0, 1>>,
                    <<2, 1, 0>> >>

\* load_config: for i, src ... for j, dst ...: add_edge when weight > 0
RECURSIVE LoadConfigFrom(_, _, _)
LoadConfigFrom(G, i, j) ==
  IF i > Len(ConfigNodes) THEN G
  ELSE IF j > Len(ConfigNodes) THEN LoadConfigFrom(G, i + 1, 1)
  ELSE LoadConfigFrom(
         IF ConfigWeights[i][j] > 0
         THEN AddEdge(G, ConfigNodes[i], ConfigNodes[j], ConfigWeights[i][j])
         ELSE G,
         i, j + 1)

\* self.graph
graph == LoadConfigFrom(EmptyGraph, 1, 1)

(***************************************************************************)
(* State.                                                                  *)
(***************************************************************************)
VARIABLES
  mac_to_switch,   \* MAC -> dpid
  mac_to_port,     \* dpid -> (MAC -> port)
  datapaths,       \* the dpids with a registered datapath object
  flow_to_path,    \* <<dpid, dst dpid, dst MAC>> -> path
  topology_graph,  \* the discovered graph
  link_to_port,    \* <<src dpid, dst dpid>> -> src port
  port_to_link,    \* <<dpid, port>> -> neighbour dpid
  ecmp_enabled,    \* config['ecmp']
  ryu_switches,    \* what get_switch returns, in registration order
  ryu_links,       \* what get_link returns, in discovery order
  connected,       \* the dpids whose OpenFlow connection is open
  last,            \* the notification handled last and what it sent
  npkt,            \* packet-in notifications handled so far
  ntopo,           \* topology notifications handled so far
  learn_log,       \* SpecLearn: the learn operations, oldest first
  pg,              \* SpecPaths: the graph handed to the resolver
  pquery,          \* SpecPaths: <<source, target>>
  presult,         \* SpecPaths: what the resolver returned and the selection
  hub,             \* SpecHub: the hub controller of part1 and its switches
  lsw,             \* SpecSwitch: the learning switch of part1, its switches
                   \* and what it did with the last notification
  hpos,            \* SpecSteps: where packet_in_handler stands in its
                   \* cache-miss branch, and the keys whose install completed
  tables           \* the flow tables of the switches: the rules the
                   \* flow-mods of the controller put there

ctl == <<mac_to_switch, mac_to_port, datapaths, flow_to_path,
         topology_graph, link_to_port, port_to_link, ecmp_enabled>>
env == <<ryu_switches, ryu_links, connected>>
pvars == <<pg, pquery, presult>>
vars == <<ctl, env, last, npkt, ntopo, learn_log, pvars, hub, lsw, hpos, tables>>

\* Python's None where a port number is expected (0 is no port number)
None == 0
\* ofproto.OFPP_FLOOD (0xfffffffb) and ofproto.OFPP_CONTROLLER (0xfffffffd)
\* of OpenFlow 1.3, read as signed 32-bit numbers
Flood == -5
Controller == -3
\* parser.OFPMatch(): the empty match
AnyDst == <<>>

NoPkt == [eth |-> FALSE, ethertype |-> "none", src |-> <<>>, dst |-> <<>>,
          tcp |-> NoTcp]

\* priorities and timeouts of the rules
PriorityTableMiss == 0
PriorityTcp == 10
PriorityMac == 5
IdleTimeoutPath == 30
IdleTimeoutDefault == 0

FlowMod(dpid, priority, eth_dst, tcp, out_port, idle_timeout) ==
  [dpid |-> dpid, priority |-> priority, eth_dst |-> eth_dst, tcp |-> tcp,
   out_port |-> out_port, idle_timeout |-> idle_timeout]

PacketOut(dpid, in_port, out_port) ==
  [dpid |-> dpid, in_port |-> in_port, out_port |-> out_port]

\* a handled notification: its inputs, the packet-outs (out) and flow-mods
\* (mods) it sent, how the packet ended (outcome), whether the path
\* resolver was invoked (resolved) and the exception that escaped (error)
Event(kind, dpid, in_port, pkt, out, mods, outcome, resolved, error) ==
  [kind |-> kind, dpid |-> dpid, in_port |-> in_port, pkt |-> pkt,
   out |-> out, mods |-> mods, outcome |-> outcome, resolved |-> resolved,
   error |-> error]

NoEvent == Event("init", 0, 0, NoPkt, <<>>, <<>>, "none", FALSE, "none")

\* learn_log while the learn operations are not recorded
NoLog == [on |-> FALSE, ops |-> <<>>]
\* presult before the resolver has been called
NoResult ==
  [done |-> FALSE, err |-> "none", paths |-> <<>>, path |-> <<>>,
   path2 |-> <<>>]

\* HubController.__init__, and switches with empty flow tables
NoHub == [mac_to_port |-> <<>>, flow_table |-> [dpid \in Switches |-> {}]]

\* OFP_NO_BUFFER (0xffffffff, as a signed 32-bit number): the packet-in
\* carries the whole packet, the switch kept no copy
NoBuffer == -1

\* Buffer ids a packet-in can carry
BufferIds == {NoBuffer, 0, 1}

NoMsg == [dpid |-> 0, in_port |-> 0, pkt |-> NoPkt, buffer_id |-> NoBuffer]

\* LearningSwitch.__init__, switches with empty flow tables, and no
\* notification handled yet
NoLsw == [mac_to_port |-> <<>>, flow_table |-> [dpid \in Switches |-> {}], kind |-> "init", msg |-> NoMsg, out |-> <<>>, mods |-> <<>>, released |-> <<>>]

\* No packet-in is being handled, no install has completed
Idle == [at |-> "idle", dpid |-> 0, in_port |-> 0, pkt |-> NoPkt, key |-> <<>>, path |-> <<>>, dst_port |-> 0, i |-> 0, mods |-> <<>>, completed |-> {}]

\* The switches start with empty flow tables
NoRules == [dpid \in Switches |-> {}]

\* __init__
Init ==
  /\ mac_to_switch = <<>>
  /\ mac_to_port = <<>>
  /\ datapaths = {}
  /\ flow_to_path = <<>>
  /\ topology_graph = EmptyGraph
  /\ link_to_port = <<>>
  /\ port_to_link = <<>>
  /\ ecmp_enabled \in BOOLEAN
  /\ ryu_switches = <<>>
  /\ ryu_links = <<>>
  /\ connected = {}
  /\ last = NoEvent
  /\ npkt = 0
  /\ ntopo = 0
  /\ learn_log = NoLog
  /\ pg = EmptyGraph
  /\ pquery = <<>>
  /\ presult = NoResult
  /\ hub = NoHub
  /\ lsw = NoLsw
  /\ hpos = Idle
  /\ tables = NoRules


(***************************************************************************)
(* Helpers of the handlers.                                                *)
(***************************************************************************)
\* d[k] = v on a dict held as a function
Put(f, k, v) == (k :> v) @@ f

\* add_flow without the idle_timeout argument: the rule never expires
AddFlowNoTimeout(dpid, priority, eth_dst, tcp, out_port, idle_timeout) ==
  FlowMod(dpid, priority, eth_dst, tcp, out_port, IdleTimeoutDefault)

\* add_flow: the flow-mod sent to the datapath
add_flow(dpid, priority, eth_dst, tcp, out_port, idle_timeout) ==
  FlowMod(dpid, priority, eth_dst, tcp, out_port, idle_timeout)

\* flood_packet sending the packet back out of the port it came in on
FloodToInPort(dpid, in_port) == PacketOut(dpid, in_port, in_port)

\* flood_packet: one packet-out with the FLOOD action
flood_packet(dpid, in_port) == PacketOut(dpid, in_port, Flood)

\* path.index(x)
IndexOf(path, x) == CHOOSE i \in 1..Len(path) :
                      /\ path[i] = x
                      /\ \A j \in 1..(i - 1) : path[j] # x

\* dict.get(key): the value or None
\* The switch receiving datapath.send_msg(mod), an OFPFlowMod with the
\* default command OFPFC_ADD: the rule replaces the rule of the same
\* priority and match, if any, and is added otherwise
ApplyMod(tbl, mod) ==
  [tbl EXCEPT ![mod.dpid] =
     { r \in @ : ~(r.priority = mod.priority /\ r.eth_dst = mod.eth_dst
                     /\ r.tcp = mod.tcp) } \cup {mod}]

\* The flow tables after the flow-mods of one handler run, in their order
RECURSIVE ApplyMods(_, _)
ApplyMods(tbl, mods) ==
  IF mods = <<>> THEN tbl
  ELSE ApplyMods(ApplyMod(tbl, Head(mods)), Tail(mods))

Get(f, k) == IF k \in DOMAIN f THEN f[k] ELSE None

\* get_outport reading the port of the link in the opposite direction
GetOutportReversed(switch_id, path, final_port) ==
  LET switch_name == NodeName(switch_id)
  IN  IF switch_name \notin SeqToSet(path) THEN None
      ELSE LET idx == IndexOf(path, switch_name)
           IN  IF idx < Len(path)
               THEN Get(link_to_port, <<SwitchId(path[idx + 1]), switch_id>>)
               ELSE final_port

\* get_outport(switch_id, path, final_port)
get_outport(switch_id, path, final_port) ==
  LET switch_name == NodeName(switch_id)
  IN  IF switch_name \notin SeqToSet(path) THEN None
      ELSE LET idx == IndexOf(path, switch_name)
           IN  IF idx < Len(path)
               THEN Get(link_to_port, <<switch_id, SwitchId(path[idx + 1])>>)
               ELSE final_port

\* InstallHop taking the port learned for the destination on every switch
InstallHopFinalPort(path, i, dst_mac, final_port, tcp_pkt) ==
  LET switch_id == SwitchId(path[i])
  IN  IF switch_id \notin datapaths THEN <<>>
      ELSE IF tcp_pkt # NoTcp
           THEN << add_flow(switch_id, PriorityTcp, dst_mac, tcp_pkt,
                            final_port, IdleTimeoutPath) >>
           ELSE << add_flow(switch_id, PriorityMac, dst_mac, NoTcp,
                            final_port, IdleTimeoutPath) >>

\* InstallHop sending the rule of a switch twice
InstallHopTwice(path, i, dst_mac, final_port, tcp_pkt) ==
  LET switch_id == SwitchId(path[i])
      out_port == IF i < Len(path)
                  THEN Get(link_to_port, <<switch_id, SwitchId(path[i + 1])>>)
                  ELSE final_port
      mod == add_flow(switch_id, IF tcp_pkt # NoTcp THEN PriorityTcp
                                 ELSE PriorityMac,
                      dst_mac, tcp_pkt, out_port, IdleTimeoutPath)
  IN  IF switch_id \notin datapaths THEN <<>>
      ELSE IF out_port = None THEN <<>>
      ELSE <<mod, mod>>

\* one iteration of the loop of install_path_rules: the flow-mods sent
\* for path[i] (none when the switch is skipped)
InstallHop(path, i, dst_mac, final_port, tcp_pkt) ==
  LET switch_id == SwitchId(path[i])
      out_port == IF i < Len(path)
                  THEN Get(link_to_port, <<switch_id, SwitchId(path[i + 1])>>)
                  ELSE final_port
  IN  IF switch_id \notin datapaths THEN <<>>
      ELSE IF out_port = None THEN <<>>
      ELSE IF tcp_pkt # NoTcp
           THEN << add_flow(switch_id, PriorityTcp, dst_mac, tcp_pkt,
                            out_port, IdleTimeoutPath) >>
           ELSE << add_flow(switch_id, PriorityMac, dst_mac, NoTcp,
                            out_port, IdleTimeoutPath) >>

\* InstallFrom giving up at the first switch that is not in datapaths
RECURSIVE InstallFromAbort(_, _, _, _, _)
InstallFromAbort(path, i, dst_mac, final_port, tcp_pkt) ==
  IF i > Len(path) THEN <<>>
  ELSE IF SwitchId(path[i]) \notin datapaths THEN <<>>
  ELSE InstallHop(path, i, dst_mac, final_port, tcp_pkt)
         \o InstallFromAbort(path, i + 1, dst_mac, final_port, tcp_pkt)

\* InstallFrom leaving the loop at the first switch for which link_to_port
\* holds no port toward the next switch
RECURSIVE InstallFromBreak(_, _, _, _, _)
InstallFromBreak(path, i, dst_mac, final_port, tcp_pkt) ==
  IF i > Len(path) THEN <<>>
  ELSE IF i < Len(path)
          /\ Get(link_to_port,
                 <<SwitchId(path[i]), SwitchId(path[i + 1])>>) = None
  THEN <<>>
  ELSE InstallHop(path, i, dst_mac, final_port, tcp_pkt)
         \o InstallFromBreak(path, i + 1, dst_mac, final_port, tcp_pkt)

\* InstallFrom leaving out the first switch of the path
RECURSIVE InstallFromSkipFirst(_, _, _, _, _)
InstallFromSkipFirst(path, i, dst_mac, final_port, tcp_pkt) ==
  IF i > Len(path) THEN <<>>
  ELSE (IF i = 1 THEN <<>>
        ELSE InstallHop(path, i, dst_mac, final_port, tcp_pkt))
         \o InstallFromSkipFirst(path, i + 1, dst_mac, final_port, tcp_pkt)

\* install_path_rules(path, dst_mac, final_port, tcp_pkt)
RECURSIVE InstallFrom(_, _, _, _, _)
InstallFrom(path, i, dst_mac, final_port, tcp_pkt) ==
  IF i > Len(path) THEN <<>>
  ELSE InstallHop(path, i, dst_mac, final_port, tcp_pkt)
         \o InstallFrom(path, i + 1, dst_mac, final_port, tcp_pkt)

install_path_rules(path, dst_mac, final_port, tcp_pkt) ==
  InstallFrom(path, 1, dst_mac, final_port, tcp_pkt)

(***************************************************************************)
(* Topology handlers.                                                      *)
(***************************************************************************)
\* switch_features_handler without "self.datapaths[dpid] = datapath"
SwitchFeaturesNoRegister(dpid) ==
  /\ mac_to_port' = IF dpid \notin DOMAIN mac_to_port
                    THEN Put(mac_to_port, dpid, <<>>)
                    ELSE mac_to_port
  /\ last' = Event("features", dpid, 0, NoPkt, <<>>,
                   << add_flow(dpid, PriorityTableMiss, AnyDst, NoTcp,
                               Controller, IdleTimeoutDefault) >>,
                   "none", FALSE, "none")
  /\ ntopo' = ntopo + 1
  /\ UNCHANGED <<mac_to_switch, flow_to_path, topology_graph, link_to_port,
                 port_to_link, ecmp_enabled, ryu_switches, ryu_links, npkt,
                 learn_log, pvars, datapaths, hub, lsw, hpos>>
  /\ connected' = connected \cup {dpid}
  /\ tables' = ApplyMods(tables, last'.mods)

\* switch_features_handler without the test of line 76: the ports learned
\* on the switch are forgotten when it joins again
SwitchFeaturesResetsPorts(dpid) ==
  /\ datapaths' = datapaths \cup {dpid}
  /\ mac_to_port' = Put(mac_to_port, dpid, <<>>)
  /\ last' = Event("features", dpid, 0, NoPkt, <<>>,
                   << add_flow(dpid, PriorityTableMiss, AnyDst, NoTcp,
                               Controller, IdleTimeoutDefault) >>,
                   "none", FALSE, "none")
  /\ ntopo' = ntopo + 1
  /\ UNCHANGED <<mac_to_switch, flow_to_path, topology_graph, link_to_port,
                 port_to_link, ecmp_enabled, ryu_switches, ryu_links, npkt,
                 learn_log, pvars, hub, lsw, hpos>>
  /\ connected' = connected \cup {dpid}
  /\ tables' = ApplyMods(tables, last'.mods)

\* switch_features_handler
SwitchFeatures(dpid) ==
  /\ datapaths' = datapaths \cup {dpid}
  /\ mac_to_port' = IF dpid \notin DOMAIN mac_to_port
                    THEN Put(mac_to_port, dpid, <<>>)
                    ELSE mac_to_port
  /\ last' = Event("features", dpid, 0, NoPkt, <<>>,
                   << add_flow(dpid, PriorityTableMiss, AnyDst, NoTcp,
                               Controller, IdleTimeoutDefault) >>,
                   "none", FALSE, "none")
  /\ ntopo' = ntopo + 1
  /\ UNCHANGED <<mac_to_switch, flow_to_path, topology_graph, link_to_port,
                 port_to_link, ecmp_enabled, ryu_switches, ryu_links, npkt,
                 learn_log, pvars, hub, lsw, hpos>>
  /\ connected' = connected \cup {dpid}
  /\ tables' = ApplyMods(tables, last'.mods)

\* link_add_handler
\* the four entries of a link are in the stores
LinkStored(link) ==
  /\ Get(link_to_port, <<link[1], link[3]>>) = link[2]
  /\ Get(link_to_port, <<link[3], link[1]>>) = link[4]
  /\ Get(port_to_link, <<link[1], link[2]>>) = link[3]
  /\ Get(port_to_link, <<link[3], link[4]>>) = link[1]

link_add(link) ==
  /\ link_to_port' = Put(Put(link_to_port, <<link[1], link[3]>>, link[2]),
                         <<link[3], link[1]>>, link[4])
  /\ port_to_link' = Put(Put(port_to_link, <<link[1], link[2]>>, link[3]),
                         <<link[3], link[4]>>, link[1])

\* link_add writing the direction of the notification only
LinkAddOneWay(link) ==
  /\ link[1] \in SeqToSet(ryu_switches)
  /\ link[3] \in SeqToSet(ryu_switches)
  /\ ryu_links' = IF link \in SeqToSet(ryu_links) THEN ryu_links
                  ELSE Append(ryu_links, link)
  /\ link_to_port' = Put(link_to_port, <<link[1], link[3]>>, link[2])
  /\ port_to_link' = Put(port_to_link, <<link[1], link[2]>>, link[3])
  /\ last' = Event("link_add", link[1], link[2], NoPkt, <<>>, <<>>,
                   IF LinkStored(link) THEN "repeat" ELSE "none", FALSE,
                   "none")
  /\ ntopo' = ntopo + 1
  /\ UNCHANGED <<mac_to_switch, mac_to_port, datapaths, flow_to_path,
                 topology_graph, ecmp_enabled, ryu_switches, connected, npkt, learn_log,
                 pvars, hub, lsw, hpos, tables>>

\* ryu.topology finds a directed link and raises EventLinkAdd.  The event
\* is marked "repeat" when the stores held the link already.
LinkAdd(link) ==
  /\ link[1] \in SeqToSet(ryu_switches)
  /\ link[3] \in SeqToSet(ryu_switches)
  /\ ryu_links' = IF link \in SeqToSet(ryu_links) THEN ryu_links
                  ELSE Append(ryu_links, link)
  /\ link_add(link)
  /\ last' = Event("link_add", link[1], link[2], NoPkt, <<>>, <<>>,
                   IF LinkStored(link) THEN "repeat" ELSE "none", FALSE,
                   "none")
  /\ ntopo' = ntopo + 1
  /\ UNCHANGED <<mac_to_switch, mac_to_port, datapaths, flow_to_path,
                 topology_graph, ecmp_enabled, ryu_switches, connected, npkt, learn_log,
                 pvars, hub, lsw, hpos, tables>>

\* discover_topology: "for switch in switches: add_node"
RECURSIVE AddSwitches(_, _, _)
AddSwitches(G, switches, i) ==
  IF i > Len(switches) THEN G
  ELSE AddSwitches(AddNode(G, NodeName(switches[i])), switches, i + 1)

\* every link gets the default weight
LinkWeightDefault(src, dst) == 1

\* the weight read from the config graph, else 1
LinkWeight(src, dst) ==
  IF HasEdge(graph, src, dst) THEN EdgeWeight(graph, src, dst) ELSE 1

\* discover_topology: "for link in links: ..." on the record
\* [g, l2p, p2l] of the three stores
RECURSIVE AddLinks(_, _, _)
AddLinks(st, links, i) ==
  IF i > Len(links) THEN st
  ELSE LET link == links[i]
           src == NodeName(link[1])
           dst == NodeName(link[3])
       IN  AddLinks([g |-> AddEdge(st.g, src, dst, LinkWeight(src, dst)),
                     l2p |-> Put(st.l2p, <<link[1], link[3]>>, link[2]),
                     p2l |-> Put(st.p2l, <<link[1], link[2]>>, link[3])],
                    links, i + 1)

\* discover_topology without the three clear() calls
DiscoverNoClear(switches, links) ==
  AddLinks([g |-> AddSwitches(topology_graph, switches, 1),
            l2p |-> link_to_port, p2l |-> port_to_link], links, 1)

\* discover_topology on the snapshot <<switches, links>>
discover_topology(switches, links) ==
  AddLinks([g |-> AddSwitches(EmptyGraph, switches, 1),
            l2p |-> <<>>, p2l |-> <<>>], links, 1)

\* switch_enter_handler emptying the Flow Cache with the rebuild
SwitchEnterClearsCache(dpid) ==
  /\ dpid \in datapaths
  /\ ryu_switches' = IF dpid \in SeqToSet(ryu_switches) THEN ryu_switches
                     ELSE Append(ryu_switches, dpid)
  /\ LET st == discover_topology(ryu_switches', ryu_links)
     IN  /\ topology_graph' = st.g
         /\ link_to_port' = st.l2p
         /\ port_to_link' = st.p2l
  /\ flow_to_path' = <<>>
  /\ last' = Event("switch_enter", dpid, 0, NoPkt, <<>>, <<>>, "none", FALSE,
                   "none")
  /\ ntopo' = ntopo + 1
  /\ UNCHANGED <<mac_to_switch, mac_to_port, datapaths, ecmp_enabled,
                 ryu_links, connected, npkt, learn_log, pvars, hub, lsw, hpos, tables>>

\* ryu.topology registers the switch and raises EventSwitchEnter:
\* switch_enter_handler
SwitchEnter(dpid) ==
  /\ dpid \in datapaths
  /\ ryu_switches' = IF dpid \in SeqToSet(ryu_switches) THEN ryu_switches
                     ELSE Append(ryu_switches, dpid)
  /\ LET st == discover_topology(ryu_switches', ryu_links)
     IN  /\ topology_graph' = st.g
         /\ link_to_port' = st.l2p
         /\ port_to_link' = st.p2l
  /\ last' = Event("switch_enter", dpid, 0, NoPkt, <<>>, <<>>, "none", FALSE,
                   "none")
  /\ ntopo' = ntopo + 1
  /\ UNCHANGED <<mac_to_switch, mac_to_port, datapaths, flow_to_path,
                 ecmp_enabled, ryu_links, connected, npkt, learn_log, pvars, hub, lsw, hpos, tables>>


(***************************************************************************)
(* The frames a packet-in may carry.                                       *)
(***************************************************************************)
Frame(ethertype, src, dst, tcp) ==
  [eth |-> TRUE, ethertype |-> ethertype, src |-> src, dst |-> dst,
   tcp |-> tcp]

Packets ==
  {NoPkt}                       \* no Ethernet header can be parsed
  \cup {Frame("LLDP", MacLldp, MacLldp, NoTcp)}
  \cup {Frame("ARP", MacH1, MacBroadcast, NoTcp)}
  \cup UNION { {Frame("ARP", s, d, NoTcp) : d \in HostMacs \ {s}} :
                s \in HostMacs }
  \cup UNION { {Frame("IPV4", s, d, NoTcp) : d \in HostMacs \ {s}} :
                s \in HostMacs }
  \cup {Frame("IPV4", MacH1, MacH1, NoTcp)}
  \cup UNION { {Frame("IPV4", s, d, t) : d \in HostMacs \ {s}} :
                s \in HostMacs, t \in TcpFlows }
  \cup {Frame("IPV4", MacH1, MacMcastV4, NoTcp)}
  \cup {Frame("IPV6", MacH1, MacMcastV6, NoTcp)}
  \cup {Frame("OTHER", MacH1, MacMcastStp, NoTcp)}

(***************************************************************************)
(* packet_in_handler.                                                      *)
(***************************************************************************)
\* the exceptions that escape the handler
Raised == {"AttributeError", "KeyError"}

\* the end of one run of the handler: the stores it leaves and what it sent;
\* an escaped exception sends nothing, so the packet is dropped
PktDone(mts, mtp, ftp, dpid, in_port, pkt, out, mods, outcome, resolved, learned) ==
  /\ mac_to_switch' = mts
  /\ mac_to_port' = mtp
  /\ flow_to_path' = ftp
  /\ last' = Event("packet_in", dpid, in_port, pkt, out, mods,
                   IF outcome \in Raised THEN "drop" ELSE outcome,
                   resolved,
                   IF outcome \in Raised THEN outcome ELSE "none")
  /\ npkt' = npkt + 1
  /\ learn_log' = IF learn_log.on /\ learned
                  THEN [learn_log EXCEPT
                          !.ops = Append(@, <<dpid, pkt.src, in_port>>)]
                  ELSE learn_log
  /\ UNCHANGED <<datapaths, topology_graph, link_to_port, port_to_link,
                 ecmp_enabled, env, ntopo, pvars, hub, lsw>>
  /\ tables' = ApplyMods(tables, mods)
  /\ hpos' = [Idle EXCEPT !.completed = hpos.completed]

\* ShouldLearn without the check of port_to_link
ShouldLearnAlways(dpid, in_port) == TRUE

\* line 182: learn only from ports that are no endpoint of a known link
ShouldLearn(dpid, in_port) == <<dpid, in_port>> \notin DOMAIN port_to_link

\* LearnSwitch leaving mac_to_switch as it is
LearnSwitchSkip(mts, dpid, src) == mts

\* line 183
LearnSwitch(mts, dpid, src) == Put(mts, src, dpid)

\* LearnPort keeping the port learned first
LearnPortFirstWins(mtp, dpid, src, in_port) ==
  IF src \in DOMAIN mtp[dpid] THEN mtp
  ELSE [mtp EXCEPT ![dpid] = Put(@, src, in_port)]

\* line 184
LearnPort(mtp, dpid, src, in_port) ==
  [mtp EXCEPT ![dpid] = Put(@, src, in_port)]

\* DirectOutput with the FLOOD action instead of the learned port
DirectOutputFlood(dpid, in_port, dst_port) == PacketOut(dpid, in_port, Flood)

\* lines 203-211: same switch, one packet-out to the learned port
DirectOutput(dpid, in_port, dst_port) == PacketOut(dpid, in_port, dst_port)

\* line 223 without the fallback to the configured graph
GraphToUseDiscovered == topology_graph

\* line 223
graph_to_use ==
  IF NumberOfNodes(topology_graph) > 0 THEN topology_graph ELSE graph

\* PathChoices ignoring the ecmp flag: always random.choice
PathChoicesAny(all_paths) == 1..Len(all_paths)

\* PathChoices ignoring the ecmp flag: always all_paths[0]
PathChoicesFirst(all_paths) == {1}

\* lines 228-234: the indices of all_paths the selection may take
PathChoices(all_paths) ==
  IF ecmp_enabled /\ Len(all_paths) > 1 THEN 1..Len(all_paths) ELSE {1}

\* Forward without the return after the flood: the packet-out to the port
\* that was not found is sent as well
ForwardNoReturn(mts, mtp, ftp, dpid, in_port, pkt, path_key, dst_port, mods, resolved, learned) ==
  LET path == ftp[path_key]
      out_port == get_outport(dpid, path, dst_port)
  IN  IF out_port = None
      THEN PktDone(mts, mtp, ftp, dpid, in_port, pkt,
                   << flood_packet(dpid, in_port),
                      PacketOut(dpid, in_port, out_port) >>, mods, "flood",
                   resolved, learned)
      ELSE PktDone(mts, mtp, ftp, dpid, in_port, pkt,
                   << PacketOut(dpid, in_port, out_port) >>, mods,
                   "install-and-output", resolved, learned)

\* lines 252-269: forward this packet along the path stored under the key
Forward(mts, mtp, ftp, dpid, in_port, pkt, path_key, dst_port, mods, resolved, learned) ==
  LET path == ftp[path_key]
      out_port == get_outport(dpid, path, dst_port)
  IN  IF out_port = None
      THEN PktDone(mts, mtp, ftp, dpid, in_port, pkt,
                   << flood_packet(dpid, in_port) >>, mods, "flood",
                   resolved, learned)
      ELSE PktDone(mts, mtp, ftp, dpid, in_port, pkt,
                   << PacketOut(dpid, in_port, out_port) >>, mods,
                   "install-and-output", resolved, learned)

\* CrossSwitch installing the rules of the cached path again on a cache hit
CrossSwitchReinstall(mts, mtp, dpid, in_port, pkt, dst_dpid, dst_port, learned) ==
  LET path_key == <<dpid, dst_dpid, pkt.dst>>
  IN  IF path_key \in DOMAIN flow_to_path
      THEN Forward(mts, mtp, flow_to_path, dpid, in_port, pkt, path_key,
                   dst_port,
                   install_path_rules(flow_to_path[path_key], pkt.dst,
                                      dst_port, pkt.tcp),
                   FALSE, learned)
      ELSE LET r == AllShortestPaths(graph_to_use, NodeName(dpid),
                                     NodeName(dst_dpid))
           IN  IF r.err # "none"
               THEN PktDone(mts, mtp, flow_to_path, dpid, in_port, pkt,
                            <<>>, <<>>, "drop", TRUE, learned)
               ELSE \E k \in PathChoices(r.paths) :
                      LET path == r.paths[k]
                      IN  Forward(mts, mtp, Put(flow_to_path, path_key, path),
                                  dpid, in_port, pkt, path_key, dst_port,
                                  install_path_rules(path, pkt.dst, dst_port,
                                                     pkt.tcp),
                                  TRUE, learned)

\* CrossSwitch storing the one-switch path of the ingress switch under the
\* key, and installing it, when the resolver raises
CrossSwitchCacheOnFail(mts, mtp, dpid, in_port, pkt, dst_dpid, dst_port, learned) ==
  LET path_key == <<dpid, dst_dpid, pkt.dst>>
  IN  IF path_key \in DOMAIN flow_to_path
      THEN Forward(mts, mtp, flow_to_path, dpid, in_port, pkt, path_key,
                   dst_port, <<>>, FALSE, learned)
      ELSE LET r == AllShortestPaths(graph_to_use, NodeName(dpid),
                                     NodeName(dst_dpid))
           IN  IF r.err # "none"
               THEN PktDone(mts, mtp,
                            Put(flow_to_path, path_key, <<NodeName(dpid)>>),
                            dpid, in_port, pkt, <<>>,
                            install_path_rules(<<NodeName(dpid)>>, pkt.dst,
                                               dst_port, pkt.tcp),
                            "drop", TRUE, learned)
               ELSE \E k \in PathChoices(r.paths) :
                      LET path == r.paths[k]
                      IN  Forward(mts, mtp, Put(flow_to_path, path_key, path),
                                  dpid, in_port, pkt, path_key, dst_port,
                                  install_path_rules(path, pkt.dst, dst_port,
                                                     pkt.tcp),
                                  TRUE, learned)

\* lines 213-269: the destination is learned on another switch
CrossSwitch(mts, mtp, dpid, in_port, pkt, dst_dpid, dst_port, learned) ==
  LET path_key == <<dpid, dst_dpid, pkt.dst>>
  IN  IF path_key \in DOMAIN flow_to_path
      THEN Forward(mts, mtp, flow_to_path, dpid, in_port, pkt, path_key,
                   dst_port, <<>>, FALSE, learned)
      ELSE LET r == AllShortestPaths(graph_to_use, NodeName(dpid),
                                     NodeName(dst_dpid))
           IN  IF r.err # "none"
               THEN PktDone(mts, mtp, flow_to_path, dpid, in_port, pkt,
                            <<>>, <<>>, "drop", TRUE, learned)
               ELSE \E k \in PathChoices(r.paths) :
                      LET path == r.paths[k]
                      IN  Forward(mts, mtp, Put(flow_to_path, path_key, path),
                                  dpid, in_port, pkt, path_key, dst_port,
                                  install_path_rules(path, pkt.dst, dst_port,
                                                     pkt.tcp),
                                  TRUE, learned)

\* lines 181-211: learn, then classify the destination
LearnAndClassify(dpid, in_port, pkt) ==
  LET learn == ShouldLearn(dpid, in_port)
      mts == IF learn THEN LearnSwitch(mac_to_switch, dpid, pkt.src)
             ELSE mac_to_switch
      key_error == learn /\ dpid \notin DOMAIN mac_to_port
      mtp == IF learn /\ ~key_error
             THEN LearnPort(mac_to_port, dpid, pkt.src, in_port)
             ELSE mac_to_port
  IN  IF key_error
      THEN PktDone(mts, mtp, flow_to_path, dpid, in_port, pkt, <<>>, <<>>,
                   "KeyError", FALSE, learn)
      ELSE IF pkt.ethertype = "ARP"
      THEN PktDone(mts, mtp, flow_to_path, dpid, in_port, pkt,
                   << flood_packet(dpid, in_port) >>, <<>>, "flood", FALSE,
                   learn)
      ELSE IF pkt.dst \notin DOMAIN mts
      THEN PktDone(mts, mtp, flow_to_path, dpid, in_port, pkt,
                   << flood_packet(dpid, in_port) >>, <<>>, "flood", FALSE,
                   learn)
      ELSE LET dst_dpid == mts[pkt.dst]
           IN  IF dst_dpid \notin DOMAIN mtp
                  \/ pkt.dst \notin DOMAIN mtp[dst_dpid]
               THEN PktDone(mts, mtp, flow_to_path, dpid, in_port, pkt,
                            <<>>, <<>>, "KeyError", FALSE, learn)
               ELSE IF dpid = dst_dpid
               THEN PktDone(mts, mtp, flow_to_path, dpid, in_port, pkt,
                            << DirectOutput(dpid, in_port,
                                            mtp[dst_dpid][pkt.dst]) >>,
                            <<>>, "direct-output", FALSE, learn)
               ELSE CrossSwitch(mts, mtp, dpid, in_port, pkt, dst_dpid,
                                mtp[dst_dpid][pkt.dst], learn)

\* packet_in_handler without the return for LLDP frames
PacketInNoLldpReturn(dpid, in_port, pkt) ==
  /\ dpid \in datapaths
  /\ IF ~pkt.eth
     THEN PktDone(mac_to_switch, mac_to_port, flow_to_path, dpid, in_port,
                  pkt, <<>>, <<>>, "AttributeError", FALSE, FALSE)
     ELSE IF IgnoredDst(pkt.dst)
     THEN PktDone(mac_to_switch, mac_to_port, flow_to_path, dpid, in_port,
                  pkt, <<>>, <<>>, "drop", FALSE, FALSE)
     ELSE LearnAndClassify(dpid, in_port, pkt)

\* packet_in_handler, for a packet-in of a switch in the main state
PacketIn(dpid, in_port, pkt) ==
  /\ dpid \in datapaths
  /\ IF ~pkt.eth
     THEN PktDone(mac_to_switch, mac_to_port, flow_to_path, dpid, in_port,
                  pkt, <<>>, <<>>, "AttributeError", FALSE, FALSE)
     ELSE IF pkt.ethertype = "LLDP"
     THEN PktDone(mac_to_switch, mac_to_port, flow_to_path, dpid, in_port,
                  pkt, <<>>, <<>>, "drop", FALSE, FALSE)
     ELSE IF IgnoredDst(pkt.dst)
     THEN PktDone(mac_to_switch, mac_to_port, flow_to_path, dpid, in_port,
                  pkt, <<>>, <<>>, "drop", FALSE, FALSE)
     ELSE LearnAndClassify(dpid, in_port, pkt)

(***************************************************************************)
(* The environment: the switches join and ryu.topology reports them and    *)
(* their links in the order of TopoScript; packet-ins of the joined        *)
(* switches arrive at any point in between.                                *)
(***************************************************************************)
TopoScript ==
  << <<"features", 1>>, <<"features", 3>>, <<"features", 2>>,
     <<"enter", 1>>, <<"enter", 2>>,
     <<"link", <<1, 2, 2, 2>> >>,
     <<"enter", 3>>,
     <<"link", <<2, 3, 3, 2>> >>,
     <<"features", 4>>, <<"enter", 4>> >>

Scheduled(kind, what) ==
  /\ ntopo < Len(TopoScript)
  /\ TopoScript[ntopo + 1] = <<kind, what>>

Next ==
  \/ \E dpid \in Switches :
       Scheduled("features", dpid) /\ SwitchFeatures(dpid)
  \/ \E dpid \in Switches :
       Scheduled("enter", dpid) /\ SwitchEnter(dpid)
  \/ \E link \in PhysLinks :
       Scheduled("link", link) /\ LinkAdd(link)
  \/ \E dpid \in Switches : \E in_port \in PortsOf(dpid) :
       \E pkt \in Packets : npkt < MaxPkts /\ PacketIn(dpid, in_port, pkt)

Spec == Init /\ [][Next]_vars


(***************************************************************************)
(* SpecFlows: the same controller and environment, the packet-ins carry    *)
(* unicast IPv4 frames between the two hosts only.                         *)
(***************************************************************************)
FlowPackets ==
  UNION { {Frame("IPV4", s, d, t) : d \in HostMacs \ {s}} :
            s \in HostMacs, t \in TcpFlows \cup {NoTcp} }

NextFlows ==
  \/ \E dpid \in Switches :
       Scheduled("features", dpid) /\ SwitchFeatures(dpid)
  \/ \E dpid \in Switches :
       Scheduled("enter", dpid) /\ SwitchEnter(dpid)
  \/ \E link \in PhysLinks :
       Scheduled("link", link) /\ LinkAdd(link)
  \/ \E dpid \in Switches : \E in_port \in PortsOf(dpid) :
       \E pkt \in FlowPackets :
         npkt < MaxFlowPkts /\ PacketIn(dpid, in_port, pkt)

SpecFlows == Init /\ [][NextFlows]_vars

(***************************************************************************)
(* SpecLearn: SpecFlows with the learn operations recorded in learn_log.   *)
(***************************************************************************)
InitLearn ==
  /\ mac_to_switch = <<>>
  /\ mac_to_port = <<>>
  /\ datapaths = {}
  /\ flow_to_path = <<>>
  /\ topology_graph = EmptyGraph
  /\ link_to_port = <<>>
  /\ port_to_link = <<>>
  /\ ecmp_enabled = FALSE
  /\ ryu_switches = <<>>
  /\ ryu_links = <<>>
  /\ connected = {}
  /\ last = NoEvent
  /\ npkt = 0
  /\ ntopo = 0
  /\ learn_log = [on |-> TRUE, ops |-> <<>>]
  /\ pg = EmptyGraph
  /\ pquery = <<>>
  /\ presult = NoResult
  /\ hub = NoHub
  /\ lsw = NoLsw
  /\ hpos = Idle
  /\ tables = NoRules

SpecLearn == InitLearn /\ [][NextFlows]_vars

(***************************************************************************)
(* SpecTopo: the topology handlers alone, with the notifications in any    *)
(* order and any number of times: switches join (again), ryu.topology      *)
(* registers them, reports links, both directions, again and again, and    *)
(* drops links that went down (EventLinkDelete, for which the application  *)
(* has no handler).  s4 is linked to s3 here, by a link the configuration  *)
(* does not know.                                                          *)
(***************************************************************************)
MaxTopo == 9

\* the links of the network, one between s3 and s4 (s4 is not a node of the
\* configuration) and one between s1 and s3 (configured weight 2)
TopoLinks ==
  PhysLinks \cup { <<3, 3, 4, 2>>, <<4, 2, 3, 3>>, <<1, 3, 3, 4>> }

\* ryu.topology drops a link; no handler of the application runs
LinkDelete(link) ==
  /\ link \in SeqToSet(ryu_links)
  /\ ryu_links' = SelectSeq(ryu_links, LAMBDA l : l # link)
  /\ last' = Event("link_delete", link[1], link[2], NoPkt, <<>>, <<>>,
                   "none", FALSE, "none")
  /\ ntopo' = ntopo + 1
  /\ UNCHANGED <<ctl, ryu_switches, connected, npkt, learn_log, pvars, hub, lsw, hpos,
                 tables>>

NextTopo ==
  \/ \E dpid \in Switches : ntopo < MaxTopo /\ SwitchFeatures(dpid)
  \/ \E dpid \in Switches : ntopo < MaxTopo /\ SwitchEnter(dpid)
  \/ \E link \in TopoLinks : ntopo < MaxTopo /\ LinkAdd(link)
  \/ \E link \in TopoLinks : ntopo < MaxTopo /\ LinkDelete(link)

SpecTopo == Init /\ [][NextTopo]_vars

(***************************************************************************)
(* SpecRules: SpecFlows with the switches letting rules expire.  A rule    *)
(* with an idle-timeout leaves the flow table when no packet matched it    *)
(* for that long; the flow-mods ask for no flow-removed message and the    *)
(* application has no handler for one, so the controller does not notice.  *)
(***************************************************************************)
Expire(dpid, rule) ==
  /\ rule \in tables[dpid]
  /\ rule.idle_timeout > 0
  /\ tables' = [tables EXCEPT ![dpid] = @ \ {rule}]
  /\ last' = Event("expire", dpid, 0, NoPkt, <<>>, <<>>, "none", FALSE,
                   "none")
  /\ UNCHANGED <<ctl, env, npkt, ntopo, learn_log, pvars, hub, lsw, hpos>>

NextRules ==
  \/ NextFlows
  \/ \E dpid \in Switches : \E rule \in tables[dpid] : Expire(dpid, rule)

SpecRules == Init /\ [][NextRules]_vars

(***************************************************************************)
(* SpecSteps: the same controller and environment, with the cache-miss     *)
(* branch of packet_in_handler (lines 217-269) taken statement by          *)
(* statement.  Ryu hands an application one event at a time, so nothing    *)
(* else runs while the handler stands inside the branch.                   *)
(***************************************************************************)

\* lines 158-226 for a packet-in that ends in the cache-miss branch with a
\* path resolved: whether this packet-in is one, and what the handler holds
\* when all_shortest_paths has returned
MissOf(dpid, in_port, pkt) ==
  LET learn == ShouldLearn(dpid, in_port)
      mts == IF learn THEN LearnSwitch(mac_to_switch, dpid, pkt.src)
             ELSE mac_to_switch
      mtp == IF learn /\ dpid \in DOMAIN mac_to_port
             THEN LearnPort(mac_to_port, dpid, pkt.src, in_port)
             ELSE mac_to_port
      known == /\ pkt.eth
               /\ pkt.ethertype \notin {"LLDP", "ARP"}
               /\ ~IgnoredDst(pkt.dst)
               /\ ~(learn /\ dpid \notin DOMAIN mac_to_port)
               /\ pkt.dst \in DOMAIN mts
               /\ mts[pkt.dst] \in DOMAIN mtp
               /\ pkt.dst \in DOMAIN mtp[mts[pkt.dst]]
               /\ mts[pkt.dst] # dpid
      dst_dpid == mts[pkt.dst]
      path_key == <<dpid, dst_dpid, pkt.dst>>
      r == AllShortestPaths(graph_to_use, NodeName(dpid), NodeName(dst_dpid))
  IN  IF known /\ path_key \notin DOMAIN flow_to_path /\ r.err = "none"
      THEN [miss |-> TRUE, learn |-> learn, mts |-> mts, mtp |-> mtp,
            key |-> path_key, dst_port |-> mtp[dst_dpid][pkt.dst],
            paths |-> r.paths]
      ELSE [miss |-> FALSE]

\* lines 158-234: the handler learned the source, found the destination on
\* another switch and no entry under the key, and selected a path
StepResolve(dpid, in_port, pkt) ==
  LET m == MissOf(dpid, in_port, pkt)
  IN  /\ hpos.at = "idle"
      /\ npkt < MaxPkts
      /\ dpid \in datapaths
      /\ m.miss
      /\ mac_to_switch' = m.mts
      /\ mac_to_port' = m.mtp
      /\ learn_log' = IF learn_log.on /\ m.learn
                      THEN [learn_log EXCEPT
                              !.ops = Append(@, <<dpid, pkt.src, in_port>>)]
                      ELSE learn_log
      /\ \E k \in PathChoices(m.paths) :
           hpos' = [hpos EXCEPT !.at = "resolved", !.dpid = dpid,
                                !.in_port = in_port, !.pkt = pkt,
                                !.key = m.key, !.path = m.paths[k],
                                !.dst_port = m.dst_port]
      /\ UNCHANGED <<datapaths, flow_to_path, topology_graph, link_to_port,
                     port_to_link, ecmp_enabled, env, last, npkt, ntopo,
                     pvars, hub, lsw, tables>>

\* line 236: self.flow_to_path[path_key] = path
StepMemoize ==
  /\ hpos.at = "resolved"
  /\ flow_to_path' = Put(flow_to_path, hpos.key, hpos.path)
  /\ hpos' = [hpos EXCEPT !.at = "memoized"]
  /\ UNCHANGED <<mac_to_switch, mac_to_port, datapaths, topology_graph,
                 link_to_port, port_to_link, ecmp_enabled, env, last, npkt,
                 ntopo, learn_log, pvars, hub, lsw, tables>>

\* lines 239-243: install_path_rules(path, dst, dst_port, tcp_pkt) runs to
\* its end
StepInstall ==
  /\ hpos.at = "memoized"
  /\ hpos' = [hpos EXCEPT !.at = "installed",
                          !.mods = install_path_rules(hpos.path, hpos.pkt.dst,
                                                      hpos.dst_port,
                                                      hpos.pkt.tcp),
                          !.completed = @ \cup {hpos.key}]
  /\ tables' = ApplyMods(tables, hpos'.mods)
  /\ UNCHANGED <<ctl, env, last, npkt, ntopo, learn_log, pvars, hub, lsw>>

\* lines 252-269: the packet is forwarded and the handler returns
StepForward ==
  /\ hpos.at = "installed"
  /\ Forward(mac_to_switch, mac_to_port, flow_to_path, hpos.dpid,
             hpos.in_port, hpos.pkt, hpos.key, hpos.dst_port, hpos.mods,
             TRUE, FALSE)

NextSteps ==
  \/ \E dpid \in Switches :
       hpos.at = "idle" /\ Scheduled("features", dpid) /\ SwitchFeatures(dpid)
  \/ \E dpid \in Switches :
       hpos.at = "idle" /\ Scheduled("enter", dpid) /\ SwitchEnter(dpid)
  \/ \E link \in PhysLinks :
       hpos.at = "idle" /\ Scheduled("link", link) /\ LinkAdd(link)
  \/ \E dpid \in Switches : \E in_port \in PortsOf(dpid) :
       \E pkt \in Packets :
         /\ hpos.at = "idle"
         /\ npkt < MaxPkts
         /\ ~MissOf(dpid, in_port, pkt).miss
         /\ PacketIn(dpid, in_port, pkt)
  \/ \E dpid \in Switches : \E in_port \in PortsOf(dpid) :
       \E pkt \in Packets : StepResolve(dpid, in_port, pkt)
  \/ StepMemoize
  \/ StepInstall
  \/ StepForward

SpecSteps == Init /\ [][NextSteps]_vars


(***************************************************************************)
(* SpecPaths: the path resolver on its own.  A graph is built as           *)
(* discover_topology builds one (the nodes of all switches first, or none  *)
(* as load_config does, then the edges, here in the order of their         *)
(* endpoints) and lines 225-234 are applied to it.                         *)
(***************************************************************************)
PathNodes == { NodeName(i) : i \in 1..4 }
Weights == 1..MaxWeight

PathEdges(G) ==
  { e \in PathNodes \X PathNodes : e[1][2] < e[2][2] /\ HasEdge(G, e[1], e[2]) }

\* two graphs over s1..s4, as lists of edges <<u, v, weight>>: one with a
\* single cheapest path from s1 to s4 (s1-s2-s4 costs 2, s1-s3-s4 costs 6)
\* and one where both paths cost 2
OnePathEdges ==
  << <<NodeName(1), NodeName(2), 1>>, <<NodeName(1), NodeName(3), 1>>,
     <<NodeName(2), NodeName(4), 1>>, <<NodeName(3), NodeName(4), 5>> >>
TwoPathEdges ==
  << <<NodeName(1), NodeName(2), 1>>, <<NodeName(1), NodeName(3), 1>>,
     <<NodeName(2), NodeName(4), 1>>, <<NodeName(3), NodeName(4), 1>> >>

\* the graph after add_edge for edges[order[i]], ..., edges[order[n]]
RECURSIVE AddEdgesInOrder(_, _, _, _)
AddEdgesInOrder(G, edges, order, i) ==
  IF i > Len(order) THEN G
  ELSE LET e == edges[order[i]]
       IN  AddEdgesInOrder(AddEdge(G, e[1], e[2], e[3]), edges, order, i + 1)

Orders(n) == { f \in [1..n -> 1..n] : \A i, j \in 1..n : i # j => f[i] # f[j] }

\* the two graphs with their edges added in every order
GivenGraphs ==
  { AddEdgesInOrder(EmptyGraph, edges, order, 1) :
      edges \in {OnePathEdges, TwoPathEdges}, order \in Orders(4) }

\* the resolver starts from the empty graph or from one of the given graphs
InitPaths ==
  /\ mac_to_switch = <<>>
  /\ mac_to_port = <<>>
  /\ datapaths = {}
  /\ flow_to_path = <<>>
  /\ topology_graph = EmptyGraph
  /\ link_to_port = <<>>
  /\ port_to_link = <<>>
  /\ ecmp_enabled \in BOOLEAN
  /\ ryu_switches = <<>>
  /\ ryu_links = <<>>
  /\ connected = {}
  /\ last = NoEvent
  /\ npkt = 0
  /\ ntopo = 0
  /\ learn_log = NoLog
  /\ pg \in {EmptyGraph} \cup GivenGraphs
  /\ pquery = <<>>
  /\ presult = NoResult
  /\ hub = NoHub
  /\ lsw = NoLsw
  /\ hpos = Idle
  /\ tables = NoRules

\* "for switch in switches: add_node" for the switches 1..4
PathAddNodes ==
  /\ ~presult.done
  /\ pg = EmptyGraph
  /\ pg' = AddSwitches(EmptyGraph, <<1, 2, 3, 4>>, 1)
  /\ UNCHANGED <<ctl, env, last, npkt, ntopo, learn_log, pquery, presult, hub, lsw, hpos, tables>>

\* topology_graph.add_edge(u, v, weight=w)
PathAddEdge(u, v, w) ==
  /\ ~presult.done
  /\ Cardinality(PathEdges(pg)) < MaxEdges
  /\ u[2] < v[2]
  /\ \A e \in PathEdges(pg) :
        e[1][2] < u[2] \/ (e[1][2] = u[2] /\ e[2][2] < v[2])
  /\ pg' = AddEdge(pg, u, v, w)
  /\ UNCHANGED <<ctl, env, last, npkt, ntopo, learn_log, pquery, presult, hub, lsw, hpos, tables>>

\* lines 225-234, run twice for the same two switches on the same graph:
\* all_shortest_paths and the selection among its paths (path, and path2
\* for the second run)
PathResolve(a, b) ==
  /\ ~presult.done
  /\ a # b
  /\ pquery' = <<a, b>>
  /\ LET r == AllShortestPaths(pg, a, b)
     IN  IF r.err # "none"
         THEN presult' = [NoResult EXCEPT !.done = TRUE, !.err = r.err]
         ELSE \E k \in PathChoices(r.paths) : \E k2 \in PathChoices(r.paths) :
                presult' = [NoResult EXCEPT !.done = TRUE, !.paths = r.paths,
                                            !.path = r.paths[k],
                                            !.path2 = r.paths[k2]]
  /\ UNCHANGED <<ctl, env, last, npkt, ntopo, learn_log, pg, hub, lsw, hpos, tables>>

NextPaths ==
  \/ PathAddNodes
  \/ \E u \in PathNodes : \E v \in PathNodes : \E w \in Weights :
       PathAddEdge(u, v, w)
  \/ \E a \in PathNodes : \E b \in PathNodes : PathResolve(a, b)

SpecPaths == InitPaths /\ [][NextPaths]_vars


(***************************************************************************)
(* Properties of the packet-in handling, stated on the notification        *)
(* handled last.                                                           *)
(***************************************************************************)
IsPacketIn == last.kind = "packet_in"

\* the frame has an Ethernet header and is no LLDP frame
Parsed == IsPacketIn /\ last.pkt.eth /\ last.pkt.ethertype # "LLDP"

\* the printed destination starts with 'ff:ff', '33:33' or '01:00:5e'
HasIgnoredPrefix(mac) ==
  \E p \in { <<255, 255>>, <<51, 51>>, <<1, 0, 94>> } :
    Len(p) <= Len(mac) /\ SubSeq(mac, 1, Len(p)) = p

Outcomes == {"drop", "flood", "direct-output", "install-and-output"}

\* the one packet-out of a flood on the ingress switch
FloodOut == << PacketOut(last.dpid, last.in_port, Flood) >>

\* the frame went through Parse and the destination classification up to
\* the lookup of the destination: it is no ARP frame and no ignored one
Looked == Parsed /\ ~HasIgnoredPrefix(last.pkt.dst)
                 /\ last.pkt.ethertype # "ARP"

\* the destination is learned on another switch than the ingress switch
CrossKnown ==
  /\ Looked
  /\ last.pkt.dst \in DOMAIN mac_to_switch
  /\ mac_to_switch[last.pkt.dst] # last.dpid

\* the key of the Flow Cache for the packet handled last
LastKey == <<last.dpid, mac_to_switch[last.pkt.dst], last.pkt.dst>>

\* the switch after the ingress switch on a path
NextOnPath(path) ==
  LET i == CHOOSE k \in 1..Len(path) : path[k] = NodeName(last.dpid)
  IN  SwitchId(path[i + 1])

\* C1 as stated: every packet-in notification ends in exactly one of drop,
\* flood, direct-output and install-and-output, with at most one packet-out,
\* and flow rules are installed only when it ends in install-and-output.
C1_RulesOnlyWithInstallAndOutput ==
  IsPacketIn =>
    /\ last.outcome \in Outcomes
    /\ Len(last.out) <= 1
    /\ (last.mods # <<>> => last.outcome = "install-and-output")

\* C1, amended: every packet-in notification ends in exactly one of drop,
\* flood, direct-output and install-and-output; it sends no packet-out when
\* it drops and exactly one otherwise; flow rules are installed only after
\* the path resolver ran for a destination learned on another switch, and
\* the notification then ends in install-and-output or, when the ingress
\* switch knows no port toward the next switch of the path, in flood.
C1_OneOutcomeOnePacketOut ==
  IsPacketIn =>
    /\ last.outcome \in Outcomes
    /\ Len(last.out) <= 1
    /\ (last.outcome = "drop") = (last.out = <<>>)
    /\ last.outcome = "flood" => last.out = FloodOut
    /\ last.mods # <<>> =>
         /\ last.resolved
         /\ CrossKnown
         /\ LastKey \in DOMAIN flow_to_path
         /\ \/ last.outcome = "install-and-output"
            \/ /\ last.outcome = "flood"
               /\ <<last.dpid, NextOnPath(flow_to_path[LastKey])>>
                    \notin DOMAIN link_to_port

\* C1: rules were installed on a switch of the path and the packet flooded
C1_Witness ==
  IsPacketIn /\ last.mods # <<>> /\ last.outcome = "flood"

\* C2 as stated: every packet-in whose destination is a broadcast or
\* multicast address, or that carries an ARP frame, is flooded; no flow
\* rule is installed and no Flow Cache entry is created.
C2_GroupAndArpFlooded ==
  [][ (Parsed' /\ (IsGroupMac(last'.pkt.dst) \/ last'.pkt.ethertype = "ARP"))
        => /\ last'.outcome = "flood"
           /\ last'.out = FloodOut'
           /\ last'.mods = <<>>
           /\ flow_to_path' = flow_to_path ]_vars

\* C2, amended: a frame whose destination starts with ff:ff, 33:33 or
\* 01:00:5e is dropped: no packet-out, nothing learned, no flow rule, no
\* Flow Cache entry.  Every ARP frame to another destination is flooded with
\* one packet-out on the ingress switch, without flow rule and without Flow
\* Cache entry.
C2_IgnoredDroppedArpFlooded ==
  [][ /\ (Parsed' /\ HasIgnoredPrefix(last'.pkt.dst))
        => /\ last'.outcome = "drop"
           /\ last'.out = <<>>
           /\ last'.mods = <<>>
           /\ last'.error = "none"
           /\ flow_to_path' = flow_to_path
           /\ mac_to_switch' = mac_to_switch
           /\ mac_to_port' = mac_to_port
      /\ (Parsed' /\ ~HasIgnoredPrefix(last'.pkt.dst)
                  /\ last'.pkt.ethertype = "ARP")
        => /\ last'.outcome = "flood"
           /\ last'.out = FloodOut'
           /\ last'.mods = <<>>
           /\ flow_to_path' = flow_to_path ]_vars

\* C2: a broadcast frame from a host port was handled
C2_Witness ==
  /\ Parsed
  /\ last.pkt.dst = MacBroadcast
  /\ <<last.dpid, last.in_port>> \notin DOMAIN port_to_link
  /\ last.outcome = "drop"

\* C3: a packet-in whose unicast destination is in no entry of the MAC
\* Location Table when the destination is looked up is flooded: one
\* packet-out with the FLOOD action on the ingress switch, no flow rule, no
\* Flow Cache entry.
C3_UnknownUnicastFlooded ==
  [][ (/\ IsPacketIn' /\ last'.pkt.eth
       /\ ~IsGroupMac(last'.pkt.dst)
       /\ last'.pkt.dst \notin DOMAIN mac_to_switch')
        => /\ last'.outcome = "flood"
           /\ last'.out = FloodOut'
           /\ last'.mods = <<>>
           /\ ~last'.resolved
           /\ flow_to_path' = flow_to_path ]_vars

\* C3: an IPv4 frame to a host nobody has heard of, while another host is
\* known
C3_Witness ==
  /\ Parsed
  /\ last.pkt.ethertype = "IPV4"
  /\ last.pkt.dst \in HostMacs
  /\ last.pkt.dst \notin DOMAIN mac_to_switch
  /\ mac_to_switch # <<>>
  /\ last.outcome = "flood"

\* C4: a packet-in whose destination is learned on the switch that raised
\* the notification ends in direct-output: one packet-out to the port
\* learned for the destination, the path resolver is not invoked, no flow
\* rule is installed and no Flow Cache entry is created.
C4_SameSwitchDirectOutput ==
  [][ (/\ Looked'
       /\ last'.pkt.dst \in DOMAIN mac_to_switch'
       /\ mac_to_switch'[last'.pkt.dst] = last'.dpid)
        => /\ last'.outcome = "direct-output"
           /\ last'.out = << PacketOut(last'.dpid, last'.in_port,
                               mac_to_port'[last'.dpid][last'.pkt.dst]) >>
           /\ ~last'.resolved
           /\ last'.mods = <<>>
           /\ last'.error = "none"
           /\ flow_to_path' = flow_to_path ]_vars

\* C4: a frame between two hosts learned on the same switch, on different
\* ports
C4_Witness ==
  /\ Looked
  /\ last.pkt.src # last.pkt.dst
  /\ last.pkt.dst \in DOMAIN mac_to_switch
  /\ mac_to_switch[last.pkt.dst] = last.dpid
  /\ mac_to_port[last.dpid][last.pkt.dst] # last.in_port
  /\ last.outcome = "direct-output"

\* C5: when the destination is learned on another switch and a path is
\* stored under (ingress switch, egress switch, destination MAC), cached
\* before or resolved now, the path starts at the ingress switch and the
\* packet-out goes to the port that link_to_port holds for the link from the
\* ingress switch to the next switch of that path; only when it holds no
\* such port the packet is flooded.  (SpecFlows)
C5_OutputTowardNextHop ==
  (CrossKnown /\ LastKey \in DOMAIN flow_to_path) =>
    LET path == flow_to_path[LastKey]
        hop == <<last.dpid, NextOnPath(path)>>
    IN  /\ Len(path) >= 2
        /\ path[1] = NodeName(last.dpid)
        /\ path[Len(path)] = NodeName(mac_to_switch[last.pkt.dst])
        /\ IF hop \in DOMAIN link_to_port
           THEN /\ last.outcome = "install-and-output"
                /\ last.out = << PacketOut(last.dpid, last.in_port,
                                           link_to_port[hop]) >>
           ELSE /\ last.outcome = "flood"
                /\ last.out = FloodOut

\* C5: the path was taken from the Flow Cache and the packet sent on to the
\* next switch
C5_Witness ==
  /\ CrossKnown
  /\ LastKey \in DOMAIN flow_to_path
  /\ ~last.resolved
  /\ last.outcome = "install-and-output"

\* C6 as stated: when the path resolution for a destination learned on
\* another switch fails (no path is found, so nothing is stored under the
\* key, or the ingress switch has no port toward the next switch of the
\* path), the packet is flooded and no exception escapes the handler.
C6_ResolutionFailureFloods ==
  (/\ CrossKnown
   /\ \/ LastKey \notin DOMAIN flow_to_path
      \/ <<last.dpid, NextOnPath(flow_to_path[LastKey])>>
           \notin DOMAIN link_to_port)
    => /\ last.outcome = "flood"
       /\ last.out = FloodOut
       /\ last.error = "none"

\* C7 as stated: every frame that passes Parse and arrives on a port that
\* is no endpoint of a discovered link is learned, whatever its
\* destination.
C7_LearnedWhateverDestination ==
  (Parsed /\ <<last.dpid, last.in_port>> \notin DOMAIN port_to_link) =>
    /\ last.pkt.src \in DOMAIN mac_to_switch
    /\ mac_to_switch[last.pkt.src] = last.dpid
    /\ last.pkt.src \in DOMAIN mac_to_port[last.dpid]
    /\ mac_to_port[last.dpid][last.pkt.src] = last.in_port

\* C7, amended: every frame that passes Parse, whose destination does not
\* start with ff:ff, 33:33 or 01:00:5e, and that arrives on a port that is
\* no endpoint of a discovered link is learned before its destination is
\* classified (ARP, other multicast, unknown or known unicast): the MAC
\* Location Table maps (switch, source MAC) to the ingress port when the
\* handler returns.
C7_LearnedUnlessIgnored ==
  (/\ Parsed
   /\ ~HasIgnoredPrefix(last.pkt.dst)
   /\ <<last.dpid, last.in_port>> \notin DOMAIN port_to_link) =>
    /\ last.pkt.src \in DOMAIN mac_to_switch
    /\ mac_to_switch[last.pkt.src] = last.dpid
    /\ last.pkt.src \in DOMAIN mac_to_port[last.dpid]
    /\ mac_to_port[last.dpid][last.pkt.src] = last.in_port

\* C7: a flooded multicast frame left its source in the table
C7_Witness ==
  /\ Parsed
  /\ last.pkt.dst = MacMcastStp
  /\ <<last.dpid, last.in_port>> \notin DOMAIN port_to_link
  /\ last.outcome = "flood"
  /\ mac_to_switch[last.pkt.src] = last.dpid

\* C8: a packet-in on a port that is a key of port_to_link leaves
\* mac_to_switch and mac_to_port unchanged.
C8_TrunkPortNotLearned ==
  [][ (IsPacketIn' /\ <<last'.dpid, last'.in_port>> \in DOMAIN port_to_link)
        => /\ mac_to_switch' = mac_to_switch
           /\ mac_to_port' = mac_to_port ]_vars

\* C8: a frame of a source not seen before came in on a link port and went
\* through the Learn step
C8_Witness ==
  /\ Parsed
  /\ ~HasIgnoredPrefix(last.pkt.dst)
  /\ <<last.dpid, last.in_port>> \in DOMAIN port_to_link
  /\ last.pkt.src \notin DOMAIN mac_to_switch

(***************************************************************************)
(* The MAC Location Table against the learn operations performed so far.   *)
(***************************************************************************)
\* the positions in learn_log of the learns for mac, and for mac on sw
LearnsOfMac(mac) ==
  { i \in 1..Len(learn_log.ops) : learn_log.ops[i][2] = mac }
LearnsOn(sw, mac) ==
  { i \in LearnsOfMac(mac) : learn_log.ops[i][1] = sw }
MostRecent(S) == CHOOSE i \in S : \A j \in S : j <= i

\* C9: after any sequence of learn operations, a MAC is found in the table
\* exactly when it was learned; it resolves to the switch of its most recent
\* learn, and the port returned is the port of the most recent learn for
\* that MAC on that switch, whatever was learned for other switches in
\* between; every entry (switch, MAC) holds the port of its most recent
\* learn.  (SpecLearn)
C9_LastWriteWins ==
  learn_log.on =>
    /\ \A mac \in HostMacs :
         IF LearnsOfMac(mac) = {}
         THEN mac \notin DOMAIN mac_to_switch
         ELSE /\ mac \in DOMAIN mac_to_switch
              /\ LET sw == mac_to_switch[mac]
                 IN  /\ sw = learn_log.ops[MostRecent(LearnsOfMac(mac))][1]
                     /\ mac_to_port[sw][mac]
                          = learn_log.ops[MostRecent(LearnsOn(sw, mac))][3]
    /\ \A sw \in DOMAIN mac_to_port : \A mac \in DOMAIN mac_to_port[sw] :
         /\ LearnsOn(sw, mac) # {}
         /\ mac_to_port[sw][mac]
              = learn_log.ops[MostRecent(LearnsOn(sw, mac))][3]

\* C9: a MAC was learned on a switch, then something on another switch, then
\* the MAC again on the first switch with another port
C9_Witness ==
  \E i, j, k \in 1..Len(learn_log.ops) :
    /\ i < j /\ j < k
    /\ learn_log.ops[i][1] = learn_log.ops[k][1]
    /\ learn_log.ops[i][2] = learn_log.ops[k][2]
    /\ learn_log.ops[i][3] # learn_log.ops[k][3]
    /\ learn_log.ops[j][1] # learn_log.ops[i][1]

(***************************************************************************)
(* The path resolver against the definition of a minimum-weight path.      *)
(***************************************************************************)
\* the simple paths from a to b in G
SimplePaths(G, a, b) ==
  UNION { { p \in [1..n -> PathNodes] :
              /\ p[1] = a
              /\ p[n] = b
              /\ \A i, j \in 1..n : i # j => p[i] # p[j]
              /\ \A i \in 1..(n - 1) : HasEdge(G, p[i], p[i + 1]) } :
          n \in 2..Cardinality(PathNodes) }

RECURSIVE PathWeightFrom(_, _, _)
PathWeightFrom(G, p, i) ==
  IF i >= Len(p) THEN 0
  ELSE EdgeWeight(G, p[i], p[i + 1]) + PathWeightFrom(G, p, i + 1)

PathWeight(G, p) == PathWeightFrom(G, p, 1)

\* the paths of S of minimum total weight
MinWeightAmong(G, S) ==
  { p \in S : \A q \in S : PathWeight(G, p) <= PathWeight(G, q) }

\* C10: for every graph and every two switches a # b joined by a path, the
\* resolver returns without error the list of exactly the simple paths
\* from a to b of minimum total weight, each once, and the path selected
\* among them has that minimum weight; it fails exactly when no path joins
\* a and b.  (SpecPaths)
C10_ExactlyTheMinimumWeightPaths ==
  presult.done =>
    LET a == pquery[1]
        b == pquery[2]
        all == SimplePaths(pg, a, b)
        best == MinWeightAmong(pg, all)
    IN  IF HasNode(pg, a) /\ best # {}
        THEN /\ presult.err = "none"
             /\ SeqToSet(presult.paths) = best
             /\ Len(presult.paths) = Cardinality(best)
             /\ presult.path \in best
             /\ \A q \in all :
                  PathWeight(pg, presult.path) <= PathWeight(pg, q)
        ELSE presult.err \in {"NodeNotFound", "NetworkXNoPath"}

\* C10: two paths of different length tie for the minimum weight, and a
\* heavier path exists
C10_Witness ==
  /\ presult.done
  /\ Len(presult.paths) >= 2
  /\ \E i, j \in 1..Len(presult.paths) :
       Len(presult.paths[i]) # Len(presult.paths[j])
  /\ SimplePaths(pg, pquery[1], pquery[2]) # SeqToSet(presult.paths)

(***************************************************************************)
(* The selection among the paths of minimum weight.                        *)
(***************************************************************************)
\* the edges of G with their weights, whatever the order they were added in
EdgeSet(G) ==
  { <<e[1], e[2], EdgeWeight(G, e[1], e[2])>> : e \in PathEdges(G) }

\* the edges of a list of edges
EdgesOf(edges) == { edges[i] : i \in 1..Len(edges) }

PathS1S2S4 == <<NodeName(1), NodeName(2), NodeName(4)>>
PathS1S3S4 == <<NodeName(1), NodeName(3), NodeName(4)>>

C12_EveryMinimumPathSelectable ==
  (presult.done /\ ecmp_enabled /\ presult.err = "none") =>
    LET best == MinWeightAmong(pg, SimplePaths(pg, pquery[1], pquery[2]))
    IN  /\ { presult.paths[k] : k \in PathChoices(presult.paths) } = best
        /\ presult.path \in best
        /\ presult.path2 \in best

\* C12: on the graph with the two paths s1-s2-s4 and s1-s3-s4 of cost 2,
\* one resolution selected the one and the other resolution the other
C12_Witness ==
  /\ presult.done
  /\ ecmp_enabled
  /\ EdgeSet(pg) = EdgesOf(TwoPathEdges)
  /\ pquery = <<NodeName(1), NodeName(4)>>
  /\ presult.path = PathS1S2S4
  /\ presult.path2 = PathS1S3S4

(***************************************************************************)
(* The Flow Cache and the installation of rules.                           *)
(***************************************************************************)
\* C13: a path stored in the Flow Cache is never replaced or removed; a
\* packet-in whose key is in the cache uses the stored path, runs neither
\* the path resolver nor install_path_rules and sends no rule; rules are
\* sent by a packet-in only when its key was not in the cache and is stored
\* by it, so install_path_rules runs once per key.  (SpecFlows)
C13_InstallOncePerKey ==
  [][ /\ \A key \in DOMAIN flow_to_path :
           /\ key \in DOMAIN flow_to_path'
           /\ flow_to_path'[key] = flow_to_path[key]
      /\ (CrossKnown' /\ LastKey' \in DOMAIN flow_to_path)
           => /\ last'.mods = <<>>
              /\ ~last'.resolved
              /\ flow_to_path' = flow_to_path
              /\ last'.outcome \in {"install-and-output", "flood"}
      /\ (IsPacketIn' /\ last'.mods # <<>>)
           => /\ CrossKnown'
              /\ last'.resolved
              /\ LastKey' \notin DOMAIN flow_to_path
              /\ LastKey' \in DOMAIN flow_to_path' ]_vars

\* C13: a TCP segment whose key is in the Flow Cache was forwarded along
\* the stored path without any rule being sent
C13_Witness ==
  /\ CrossKnown
  /\ last.pkt.tcp # NoTcp
  /\ LastKey \in DOMAIN flow_to_path
  /\ ~last.resolved
  /\ last.mods = <<>>
  /\ last.outcome = "install-and-output"

\* install_path_rules ran in the notification handled last: the resolver
\* ran and left a path under the key
Installed == CrossKnown /\ last.resolved /\ LastKey \in DOMAIN flow_to_path

\* the port a rule on the i-th switch of the path has to output to: the
\* port of the link toward the next switch, for the last switch the port
\* learned for the destination MAC (0 when link_to_port has no such link)
HopPort(path, i) ==
  IF i < Len(path)
  THEN LET hop == <<SwitchId(path[i]), SwitchId(path[i + 1])>>
       IN  IF hop \in DOMAIN link_to_port THEN link_to_port[hop] ELSE None
  ELSE mac_to_port[mac_to_switch[last.pkt.dst]][last.pkt.dst]

\* the positions of the path whose switch is live and has a port to output to
Installable(path) ==
  { i \in 1..Len(path) :
      SwitchId(path[i]) \in datapaths /\ HopPort(path, i) # None }

\* the j-th smallest element of a set of numbers
NthOf(S, j) == CHOOSE i \in S : Cardinality({ k \in S : k < i }) = j - 1

\* C14 as stated: installing a path of N switches, all of them live, sends
\* exactly N flow-mods, the i-th to the i-th switch of the path, with the
\* port of
\* the link toward the next switch, on the last switch the port learned
\* for the destination MAC.
C14_OneRulePerSwitchOfPath ==
  (Installed /\ \A i \in 1..Len(flow_to_path[LastKey]) :
                  SwitchId(flow_to_path[LastKey][i]) \in datapaths) =>
    LET path == flow_to_path[LastKey]
    IN  /\ Len(last.mods) = Len(path)
        /\ \A i \in 1..Len(path) :
             i <= Len(last.mods) =>
               /\ last.mods[i].dpid = SwitchId(path[i])
               /\ last.mods[i].out_port = HopPort(path, i)

\* C14, amended: installing a path sends, in the order of the path, exactly
\* one flow-mod to every switch of the path that is live and, unless it is
\* the last one, for which link_to_port holds the port toward the next
\* switch, and none to the other switches; the flow-mod matches the
\* destination MAC and outputs to that port, on the last switch to the
\* port learned for the destination MAC.  A path of N live switches with
\* all link ports known gets exactly N flow-mods.
C14_OneRulePerInstallableSwitch ==
  Installed =>
    LET path == flow_to_path[LastKey]
        hops == Installable(path)
    IN  /\ Len(last.mods) = Cardinality(hops)
        /\ Len(path) \in hops
        /\ \A j \in 1..Len(last.mods) :
             LET i == NthOf(hops, j)
             IN  /\ last.mods[j].dpid = SwitchId(path[i])
                 /\ last.mods[j].out_port = HopPort(path, i)
                 /\ last.mods[j].eth_dst = last.pkt.dst

\* C14: a path of three switches was installed with three flow-mods
C14_Witness ==
  /\ Installed
  /\ Len(flow_to_path[LastKey]) = 3
  /\ Len(last.mods) = 3

\* the positions of the path whose switch is not in datapaths
NotLive(path) == { i \in 1..Len(path) : SwitchId(path[i]) \notin datapaths }

\* the flow-mods of the notification handled last that went to a switch
ModsTo(dpid) == { j \in 1..Len(last.mods) : last.mods[j].dpid = dpid }

\* C15 as stated: when a switch of the path is not in datapaths, only that
\* switch is skipped: every switch of the path that is in datapaths gets
\* its flow-mod, once, and the handler completes.
C15_OnlyDeadSwitchSkipped ==
  (Installed /\ NotLive(flow_to_path[LastKey]) # {}) =>
    LET path == flow_to_path[LastKey]
    IN  /\ \A i \in NotLive(path) : ModsTo(SwitchId(path[i])) = {}
        /\ \A i \in (1..Len(path)) \ NotLive(path) :
             Cardinality(ModsTo(SwitchId(path[i]))) = 1
        /\ last.error = "none"

\* C15, amended: when a switch of the path is not in datapaths, that
\* switch gets no flow-mod and the installation goes on with the rest of
\* the path: every switch of the path that is in datapaths and has a port
\* to output to (the last switch always has) gets its flow-mod exactly
\* once, a live switch for which link_to_port holds no port toward the
\* next switch is skipped as well, no exception is raised and the packet
\* is still forwarded or flooded.
C15_DeadSwitchSkippedRestInstalled ==
  (Installed /\ NotLive(flow_to_path[LastKey]) # {}) =>
    LET path == flow_to_path[LastKey]
    IN  /\ \A i \in NotLive(path) : ModsTo(SwitchId(path[i])) = {}
        /\ \A i \in Installable(path) :
             Cardinality(ModsTo(SwitchId(path[i]))) = 1
        /\ \A i \in (1..Len(path)) \ Installable(path) :
             ModsTo(SwitchId(path[i])) = {}
        /\ Len(path) \in Installable(path)
        /\ last.error = "none"
        /\ last.outcome \in {"flood", "install-and-output"}
        /\ Len(last.out) = 1

\* C15: the middle switch of a path was not live, and a switch after it
\* got its flow-mod
C15_Witness ==
  /\ Installed
  /\ \E i \in NotLive(flow_to_path[LastKey]) :
       \E j \in Installable(flow_to_path[LastKey]) : i < j

(***************************************************************************)
(* The rules sent: priorities, timeouts, the table-miss rule.              *)
(***************************************************************************)
\* the table-miss rule of a switch: priority 0, empty match, no expiry,
\* output to the controller
TableMiss(dpid) ==
  [dpid |-> dpid, priority |-> 0, eth_dst |-> <<>>, tcp |-> <<>>,
   out_port |-> Controller, idle_timeout |-> 0]

\* C16: every flow-mod sent by a packet-in has priority 10 and matches the
\* TCP ports of the packet when the packet has a TCP header, has priority
\* 5 and matches the destination MAC only otherwise, and has a positive
\* idle-timeout; a flow-mod of priority 0 is sent by the switch-features
\* handler only, and it has idle-timeout 0.
C16_PrioritiesAndTimeouts ==
  /\ IsPacketIn =>
       \A j \in 1..Len(last.mods) :
         /\ last.mods[j].priority = (IF last.pkt.tcp # <<>> THEN 10 ELSE 5)
         /\ last.mods[j].tcp = last.pkt.tcp
         /\ last.mods[j].idle_timeout > 0
  /\ \A j \in 1..Len(last.mods) :
       last.mods[j].priority = 0 =>
         /\ last.kind = "features"
         /\ last.mods[j].idle_timeout = 0

\* C16: a TCP segment made the controller install a path of two rules
C16_Witness ==
  /\ IsPacketIn
  /\ last.pkt.tcp # <<>>
  /\ Len(last.mods) >= 2
  /\ \A j \in 1..Len(last.mods) : last.mods[j].priority = 10

\* C17: the switch-features handler sends exactly one flow-mod, the
\* table-miss rule of the switch that joined, sends no packet-out and has
\* the switch in datapaths when it returns; the other notifications that
\* are no packet-in (link added, switch entered) send no flow-mod.
C17_TableMissOnJoin ==
  /\ last.kind = "features" =>
       /\ last.mods = << TableMiss(last.dpid) >>
       /\ last.out = <<>>
       /\ last.dpid \in datapaths
       /\ last.dpid \in DOMAIN mac_to_port
  /\ last.kind \in {"init", "link_add", "switch_enter"} => last.mods = <<>>

\* C17: a switch joined after the others had learned hosts
C17_Witness ==
  /\ last.kind = "features"
  /\ mac_to_switch # <<>>
  /\ last.mods = << TableMiss(last.dpid) >>

\* C18: a packet-in with an LLDP frame changes neither the MAC Location
\* Table nor the Flow Cache nor the topology stores and sends neither a
\* packet-out nor a flow-mod; no exception is raised.
C18_LldpIgnored ==
  [][ (IsPacketIn' /\ last'.pkt.eth /\ last'.pkt.ethertype = "LLDP")
        => /\ ctl' = ctl
           /\ last'.out = <<>>
           /\ last'.mods = <<>>
           /\ last'.outcome = "drop"
           /\ last'.error = "none" ]_vars

\* C18: an LLDP frame came in on a host port of a switch
C18_Witness ==
  /\ IsPacketIn
  /\ last.pkt.eth
  /\ last.pkt.ethertype = "LLDP"
  /\ <<last.dpid, last.in_port>> \notin DOMAIN port_to_link
  /\ last.pkt.src \notin DOMAIN mac_to_switch

\* C19 as stated: a packet-in whose payload has no Ethernet header is
\* dropped, nothing is learned, nothing is sent, and no exception leaves
\* the handler.
C19_MalformedAbsorbed ==
  [][ (IsPacketIn' /\ ~last'.pkt.eth)
        => /\ ctl' = ctl
           /\ last'.out = <<>>
           /\ last'.mods = <<>>
           /\ last'.outcome = "drop"
           /\ last'.error = "none" ]_vars

-----------------------------------------------------------------------------
\* The hub controller of part1 (hub.py): a controller of its own, with its
\* own MAC table, run against the same switches and the same frames.

\* switch_features_handler of the hub: one flow-mod, priority 0, empty
\* match, output to the controller, default timeouts; the switch adds it
\* to its flow table.
HubSwitchFeatures(dpid) ==
  LET mod == FlowMod(dpid, 0, AnyDst, NoTcp, Controller, 0)
  IN /\ hub' = [hub EXCEPT !.flow_table[dpid] = @ \cup {mod}]
     /\ last' = Event("hub_features", dpid, 0, NoPkt, <<>>, << mod >>,
                      "none", FALSE, "none")
     /\ UNCHANGED <<ctl, env, npkt, ntopo, learn_log, pvars, lsw, hpos, tables>>

\* The port the hub sends a frame to: looked up after the source was
\* learned, in the table of the switch the frame came in on.
HubOutPort(table, dpid, dst_mac) ==
  IF dst_mac \in DOMAIN table[dpid] THEN table[dpid][dst_mac] ELSE Flood

\* setdefault(dpid, {}) and the learning of the source
HubLearn(table, dpid, src_mac, in_port) ==
  LET t == IF dpid \in DOMAIN table THEN table ELSE Put(table, dpid, <<>>)
  IN [t EXCEPT ![dpid] = Put(@, src_mac, in_port)]

\* A hub that behaves like a learning switch: it installs a rule for a
\* destination it knows.
HubPacketInInstall(dpid, in_port, pkt) ==
  /\ npkt < MaxPkts
  /\ hub.flow_table[dpid] # {}
  /\ npkt' = npkt + 1
  /\ IF ~pkt.eth
       THEN /\ hub' = hub
            /\ last' = Event("hub_packet_in", dpid, in_port, pkt, <<>>, <<>>,
                             "drop", FALSE, "none")
       ELSE LET table == HubLearn(hub.mac_to_port, dpid, pkt.src, in_port)
                out_port == HubOutPort(table, dpid, pkt.dst)
                mods == IF out_port = Flood THEN <<>>
                        ELSE << FlowMod(dpid, 1, pkt.dst, NoTcp, out_port,
                                        0) >>
            IN /\ hub' = [mac_to_port |-> table,
                          flow_table |->
                            [hub.flow_table EXCEPT ![dpid] =
                               @ \cup {mods[i] : i \in DOMAIN mods}]]
               /\ last' = Event("hub_packet_in", dpid, in_port, pkt,
                                << PacketOut(dpid, in_port, out_port) >>,
                                mods, "forward", FALSE, "none")
  /\ UNCHANGED <<ctl, env, ntopo, learn_log, pvars, lsw, hpos, tables>>

\* packet_in_handler of the hub.  A switch sends packet-ins only once its
\* table-miss rule is in place.
HubPacketIn(dpid, in_port, pkt) ==
  /\ npkt < MaxPkts
  /\ hub.flow_table[dpid] # {}
  /\ npkt' = npkt + 1
  /\ IF ~pkt.eth
       THEN /\ hub' = hub
            /\ last' = Event("hub_packet_in", dpid, in_port, pkt, <<>>, <<>>,
                             "drop", FALSE, "none")
       ELSE LET table == HubLearn(hub.mac_to_port, dpid, pkt.src, in_port)
                out_port == HubOutPort(table, dpid, pkt.dst)
            IN /\ hub' = [hub EXCEPT !.mac_to_port = table]
               /\ last' = Event("hub_packet_in", dpid, in_port, pkt,
                                << PacketOut(dpid, in_port, out_port) >>,
                                <<>>, "forward", FALSE, "none")
  /\ UNCHANGED <<ctl, env, ntopo, learn_log, pvars, lsw, hpos, tables>>

NextHub ==
  \/ \E dpid \in Switches : HubSwitchFeatures(dpid)
  \/ \E dpid \in Switches : \E in_port \in PortsOf(dpid) :
       \E pkt \in Packets : HubPacketIn(dpid, in_port, pkt)

SpecHub == Init /\ [][NextHub]_vars

IsHubPacketIn == last.kind = "hub_packet_in"

\* C20: the hub sends no flow-mod but the table-miss rule of a joining
\* switch: after any step every switch holds at most its priority-0
\* table-miss rule (exactly that rule once it has joined), and a packet-in
\* carrying an Ethernet frame sends no flow-mod and exactly one packet-out,
\* to the port the table of that switch holds for the destination (the
\* port the frame came in on when it is addressed to its own source), and
\* to FLOOD when the table holds none.
C20_HubOnlyTableMissOnePacketOut ==
  [][ /\ \A dpid \in Switches :
           hub'.flow_table[dpid] \in {{}, {TableMiss(dpid)}}
      /\ (last'.kind = "hub_features")
           => hub'.flow_table[last'.dpid] = {TableMiss(last'.dpid)}
      /\ (last'.kind = "hub_packet_in" /\ last'.pkt.eth)
           => /\ last'.mods = <<>>
              /\ hub'.flow_table = hub.flow_table
              /\ LET dpid == last'.dpid
                     dst == last'.pkt.dst
                     known == IF dpid \in DOMAIN hub.mac_to_port
                                THEN hub.mac_to_port[dpid] ELSE <<>>
                     port == IF dst = last'.pkt.src THEN last'.in_port
                             ELSE IF dst \in DOMAIN known THEN known[dst]
                             ELSE Flood
                 IN last'.out = << PacketOut(dpid, last'.in_port, port) >>
    ]_vars

\* C20: a frame went out of the port learned earlier for its destination,
\* on a switch that still holds nothing but its table-miss rule
C20_Witness ==
  /\ IsHubPacketIn
  /\ last.pkt.eth
  /\ last.pkt.dst # last.pkt.src
  /\ Len(last.out) = 1
  /\ last.out[1].out_port \notin {Flood, last.in_port}
  /\ last.out[1].out_port = hub.mac_to_port[last.dpid][last.pkt.dst]
  /\ hub.flow_table[last.dpid] = {TableMiss(last.dpid)}

-----------------------------------------------------------------------------
\* The learning switch of part1 (switch.py): a controller of its own, run
\* against the same switches and the same frames.

\* The default of add_flow's buffer_id parameter (Python's None)
NoBufferArg == -2

\* The flow-mod add_flow sends: it carries the buffer id only when the
\* argument is truthy ("if buffer_id:"), which None and 0 are not.
LsAddFlow(dpid, priority, eth_dst, out_port, buffer_id) ==
  [dpid |-> dpid, priority |-> priority, eth_dst |-> eth_dst,
   out_port |-> out_port,
   buffer_id |-> IF buffer_id # NoBufferArg /\ buffer_id # 0
                   THEN buffer_id ELSE NoBuffer]

\* The rule a flow-mod leaves in the flow table of the switch
LsRule(mod) ==
  [priority |-> mod.priority, eth_dst |-> mod.eth_dst,
   out_port |-> mod.out_port]

\* What the switch does with the packet it buffered under msg.buffer_id
\* when these flow-mods arrive: a flow-mod naming that buffer applies its
\* actions to the packet; any other flow-mod leaves the packet buffered.
LsReleased(msg, mods) ==
  IF msg.buffer_id # NoBuffer /\ Len(mods) = 1
       /\ mods[1].buffer_id = msg.buffer_id
    THEN << mods[1].out_port >> ELSE <<>>

\* The packet-out of the learning switch: it names the buffer of the
\* packet-in (the data goes along when there is no buffer)
LsPacketOut(dpid, buffer_id, in_port, out_port) ==
  [dpid |-> dpid, buffer_id |-> buffer_id, in_port |-> in_port,
   out_port |-> out_port]

\* setdefault(dpid, {}) and the learning of the source
LsLearn(table, dpid, src_mac, in_port) ==
  LET t == IF dpid \in DOMAIN table THEN table ELSE Put(table, dpid, <<>>)
  IN [t EXCEPT ![dpid] = Put(@, src_mac, in_port)]

\* The forwarding decision, taken after the source was learned
LsOutPort(table, dpid, dst_mac) ==
  IF dst_mac \in DOMAIN table[dpid] THEN table[dpid][dst_mac] ELSE Flood

\* switch_features_handler of the learning switch: add_flow(datapath, 0,
\* OFPMatch(), [output CONTROLLER, no buffering])
LsSwitchFeatures(dpid) ==
  LET mod == LsAddFlow(dpid, 0, AnyDst, Controller, NoBufferArg)
  IN /\ lsw' = [lsw EXCEPT !.flow_table[dpid] = @ \cup {LsRule(mod)},
                           !.kind = "features",
                           !.msg = [NoMsg EXCEPT !.dpid = dpid],
                           !.out = <<>>,
                           !.mods = << mod >>,
                           !.released = <<>>]
     /\ UNCHANGED <<ctl, env, last, npkt, ntopo, learn_log, pvars, hub, hpos, tables>>

\* The flow-mods and packet-outs packet_in_handler sends once the output
\* port is chosen: a rule when the port is not FLOOD, carrying the buffer
\* id of a buffered packet and then nothing more; a packet-out otherwise.
LsSend(dpid, in_port, dst_mac, out_port, buffer_id) ==
  IF out_port # Flood /\ buffer_id # NoBuffer
    THEN [mods |-> << LsAddFlow(dpid, 1, dst_mac, out_port, buffer_id) >>,
          out |-> <<>>]
    ELSE [mods |-> IF out_port # Flood
                     THEN << LsAddFlow(dpid, 1, dst_mac, out_port,
                                       NoBufferArg) >>
                     ELSE <<>>,
          out |-> << LsPacketOut(dpid, buffer_id, in_port, out_port) >>]

\* packet_in_handler of the learning switch.  A switch sends packet-ins
\* only once its table-miss rule is in place.
LsPacketIn(dpid, in_port, pkt, buffer_id) ==
  LET msg == [dpid |-> dpid, in_port |-> in_port, pkt |-> pkt,
              buffer_id |-> buffer_id]
  IN /\ npkt < MaxPkts
     /\ lsw.flow_table[dpid] # {}
     /\ npkt' = npkt + 1
     /\ IF ~pkt.eth
          THEN lsw' = [lsw EXCEPT !.kind = "packet_in", !.msg = msg,
                                  !.out = <<>>, !.mods = <<>>,
                                  !.released = <<>>]
          ELSE LET table == LsLearn(lsw.mac_to_port, dpid, pkt.src, in_port)
                   out_port == LsOutPort(table, dpid, pkt.dst)
                   sent == LsSend(dpid, in_port, pkt.dst, out_port, buffer_id)
               IN lsw' = [mac_to_port |-> table,
                          flow_table |->
                            [lsw.flow_table EXCEPT ![dpid] =
                               @ \cup {LsRule(sent.mods[i]) :
                                         i \in DOMAIN sent.mods}],
                          kind |-> "packet_in",
                          msg |-> msg,
                          out |-> sent.out,
                          mods |-> sent.mods,
                          released |-> LsReleased(msg, sent.mods)]
     /\ UNCHANGED <<ctl, env, last, ntopo, learn_log, pvars, hub, hpos, tables>>

NextSwitch ==
  \/ \E dpid \in Switches : LsSwitchFeatures(dpid)
  \/ \E dpid \in Switches : \E in_port \in PortsOf(dpid) :
       \E pkt \in Packets : \E buffer_id \in BufferIds :
         LsPacketIn(dpid, in_port, pkt, buffer_id)

SpecSwitch == Init /\ [][NextSwitch]_vars

\* The learning switch handled a packet-in that carried an Ethernet frame
LsParsed == lsw.kind = "packet_in" /\ lsw.msg.pkt.eth

\* The port the table of the switch holds for the destination of the last
\* frame (None when it holds none)
LsKnownPort == Get(lsw.mac_to_port[lsw.msg.dpid], lsw.msg.pkt.dst)

\* C21 as stated: a packet-in whose destination is learned on that switch
\* installs one priority-1 rule for that destination with output to the
\* learned port, and the packet itself goes out of that port, by a
\* packet-out or by the flow-mod releasing the buffered packet, whatever
\* the buffer id; a packet-in whose destination is unknown is flooded and
\* installs nothing.
C21_KnownInstallsAndForwards ==
  LsParsed =>
    IF LsKnownPort # None
      THEN /\ Len(lsw.mods) = 1
           /\ lsw.mods[1].priority = 1
           /\ lsw.mods[1].eth_dst = lsw.msg.pkt.dst
           /\ lsw.mods[1].out_port = LsKnownPort
           /\ \/ \E i \in DOMAIN lsw.out : lsw.out[i].out_port = LsKnownPort
              \/ lsw.released = << LsKnownPort >>
      ELSE /\ lsw.mods = <<>>
           /\ Len(lsw.out) = 1
           /\ lsw.out[1].out_port = Flood

\* C22 as stated: a Flow Cache entry exists under a key only if
\* install_path_rules has completed for that key (resolve, install, then
\* memoize).
C22_CachedOnlyAfterInstall ==
  \A key \in DOMAIN flow_to_path : key \in hpos.completed

\* the positions of the path, the last one excepted, for which
\* link_to_port holds no port toward the next switch
PortMissing(path) ==
  { i \in 1..(Len(path) - 1) : HopPort(path, i) = None }

\* C23: when link_to_port holds no port for the link from a switch of the
\* installed path to the next one, that switch gets no flow-mod and every
\* other switch of the path gets exactly one, with the port of its own
\* link (the last switch with the port learned for the destination); the
\* handler raises nothing.
C23_MissingPortSkipsThatHopOnly ==
  (Installed /\ PortMissing(flow_to_path[LastKey]) # {}) =>
    LET path == flow_to_path[LastKey]
    IN  /\ \A i \in PortMissing(path) : ModsTo(SwitchId(path[i])) = {}
        /\ \A i \in (1..Len(path)) \ PortMissing(path) :
             /\ Cardinality(ModsTo(SwitchId(path[i]))) = 1
             /\ \A j \in ModsTo(SwitchId(path[i])) :
                  last.mods[j].out_port = HopPort(path, i)
        /\ last.error = "none"

\* C23: the first switch of a path of three live switches was skipped for
\* its missing port and a later switch of the path got its flow-mod
C23_Witness ==
  /\ Installed
  /\ Len(flow_to_path[LastKey]) = 3
  /\ NotLive(flow_to_path[LastKey]) = {}
  /\ 1 \in PortMissing(flow_to_path[LastKey])
  /\ \E i \in 2..3 : ModsTo(SwitchId(flow_to_path[LastKey][i])) # {}

\* the packet-out of the notification handled last follows the path stored
\* under its key: the port of the link toward the next switch of that
\* path, FLOOD when link_to_port holds no such port
FollowsStoredPath ==
  LET path == flow_to_path[LastKey]
      hop == <<last.dpid, NextOnPath(path)>>
  IN  last.out = IF hop \in DOMAIN link_to_port
                 THEN << PacketOut(last.dpid, last.in_port,
                                   link_to_port[hop]) >>
                 ELSE FloodOut

\* the path the resolver would return now for the key of the notification
\* handled last is not the stored one
StoredPathStale ==
  LET r == AllShortestPaths(graph_to_use, NodeName(last.dpid),
                            NodeName(mac_to_switch[last.pkt.dst]))
  IN  \/ r.err # "none"
      \/ \A k \in DOMAIN r.paths : r.paths[k] # flow_to_path[LastKey]

\* C24: no step (switch join, link add, rebuild, packet-in, expiry of a
\* rule on a switch) removes or changes a path stored in the Flow Cache,
\* and a packet-in whose key is in the cache does not run the resolver
\* and forwards along the stored path, whatever the topology is by then.
\* (SpecRules)
C24_CacheNeverInvalidated ==
  [][ /\ \A key \in DOMAIN flow_to_path :
           /\ key \in DOMAIN flow_to_path'
           /\ flow_to_path'[key] = flow_to_path[key]
      /\ (CrossKnown' /\ LastKey' \in DOMAIN flow_to_path)
           => /\ ~last'.resolved
              /\ LastKey' \in DOMAIN flow_to_path'
              /\ FollowsStoredPath' ]_vars

\* C24: a packet-in took its path from the Flow Cache although the
\* topology was rebuilt since and the resolver would not return that path
\* any more
C24_Witness ==
  /\ CrossKnown
  /\ ~last.resolved
  /\ LastKey \in DOMAIN flow_to_path
  /\ NumberOfNodes(topology_graph) > 0
  /\ StoredPathStale

\* a rule of a flow table matches a frame: the rules of the installer match
\* the destination MAC and, when made for a TCP segment, IPv4 and its ports
Matches(rule, pkt) ==
  /\ rule.priority > PriorityTableMiss
  /\ rule.eth_dst = pkt.dst
  /\ \/ rule.tcp = NoTcp
     \/ pkt.ethertype = "IPV4" /\ rule.tcp = pkt.tcp

\* the switch that raised the last notification holds a rule that matches
\* the frame of that notification and outputs where the packet-out went
IngressHoldsRule ==
  \E rule \in tables[last.dpid] :
    /\ Matches(rule, last.pkt)
    /\ last.out = << PacketOut(last.dpid, last.in_port, rule.out_port) >>

\* C25 as stated: after a packet-in for a destination learned on another
\* switch that ended in install-and-output, cache hit or not, the ingress
\* switch holds an installed rule that matches the packet.  (SpecRules)
C25_IngressHoldsMatchingRule ==
  (CrossKnown /\ last.outcome = "install-and-output") => IngressHoldsRule

\* C25, amended: after a packet-in for a destination learned on another
\* switch that ended in install-and-output and resolved the path (a cache
\* miss), the ingress switch holds an installed rule that matches the
\* packet and outputs to the port the packet was sent to; a cache hit
\* sends no flow-mod and leaves every flow table as it was, so the ingress
\* switch holds a matching rule afterwards only if it held one before.
\* (SpecRules)
C25_MissInstallsHitLeavesTables ==
  [][ (CrossKnown' /\ last'.outcome = "install-and-output")
        => IF last'.resolved
           THEN IngressHoldsRule'
           ELSE /\ last'.mods = <<>>
                /\ tables' = tables
                /\ IngressHoldsRule' =
                     (\E rule \in tables[last'.dpid] :
                        /\ Matches(rule, last'.pkt)
                        /\ last'.out = << PacketOut(last'.dpid,
                                            last'.in_port, rule.out_port) >>)
    ]_vars

\* C25: a cache miss ended in install-and-output with TCP rules on a path
\* of two switches or more, the ingress switch among them
C25_Witness ==
  /\ CrossKnown
  /\ last.outcome = "install-and-output"
  /\ last.resolved
  /\ last.pkt.tcp # NoTcp
  /\ Len(last.mods) >= 2
  /\ IngressHoldsRule

(***************************************************************************)
(* The topology handlers.  (SpecTopo)                                      *)
(***************************************************************************)
\* the link of a link notification: a port is the end of one link
LinkAt(dpid, port) ==
  CHOOSE link \in TopoLinks : link[1] = dpid /\ link[2] = port

\* the same link seen from its other end
Reverse(link) == <<link[3], link[4], link[1], link[2]>>

\* C26: after the notification of a link (A, pA, B, pB) the stores hold
\* link_to_port[(A,B)] = pA, link_to_port[(B,A)] = pB, port_to_link[(A,pA)]
\* = B and port_to_link[(B,pB)] = A, every other entry of the two stores
\* and every other store of the controller is as before, and when the
\* notification before it was the same one, or the one of the same link
\* seen from B, the controller state is left entirely unchanged.
C26_AddLinkSymmetricIdempotent ==
  [][ (last'.kind = "link_add") =>
        LET link == LinkAt(last'.dpid, last'.in_port)
            A == link[1]
            pA == link[2]
            B == link[3]
            pB == link[4]
        IN  /\ DOMAIN link_to_port' =
                 DOMAIN link_to_port \cup {<<A, B>>, <<B, A>>}
            /\ DOMAIN port_to_link' =
                 DOMAIN port_to_link \cup {<<A, pA>>, <<B, pB>>}
            /\ link_to_port'[<<A, B>>] = pA
            /\ link_to_port'[<<B, A>>] = pB
            /\ port_to_link'[<<A, pA>>] = B
            /\ port_to_link'[<<B, pB>>] = A
            /\ \A k \in DOMAIN link_to_port \ {<<A, B>>, <<B, A>>} :
                 link_to_port'[k] = link_to_port[k]
            /\ \A k \in DOMAIN port_to_link \ {<<A, pA>>, <<B, pB>>} :
                 port_to_link'[k] = port_to_link[k]
            /\ <<mac_to_switch, mac_to_port, datapaths, flow_to_path,
                 topology_graph, ecmp_enabled>>' =
               <<mac_to_switch, mac_to_port, datapaths, flow_to_path,
                 topology_graph, ecmp_enabled>>
            /\ (/\ last.kind = "link_add"
                /\ LinkAt(last.dpid, last.in_port) \in {link, Reverse(link)})
                 => ctl' = ctl
    ]_vars

\* C26: a link was notified although the stores held it already
C26_Witness ==
  /\ last.kind = "link_add"
  /\ last.outcome = "repeat"
  /\ LinkStored(LinkAt(last.dpid, last.in_port))

\* C27 as stated: after the notification of a link between A and B the
\* graph the path resolver uses holds the edge A-B, with the weight of the
\* configuration when it has one for the pair and 1 otherwise.
C27_LinkAddPutsEdgeInGraph ==
  (last.kind = "link_add") =>
    LET link == LinkAt(last.dpid, last.in_port)
        A == NodeName(link[1])
        B == NodeName(link[3])
    IN  /\ HasEdge(graph_to_use, A, B)
        /\ EdgeWeight(graph_to_use, A, B) = LinkWeight(A, B)

\* the snapshot get_switch and get_link return
SnapSwitches == SeqToSet(ryu_switches)
SnapLinks == SeqToSet(ryu_links)

\* C28: after a rebuild (switch_enter) the nodes of the topology graph are
\* the switches of the snapshot, its edges the links of the snapshot,
\* link_to_port holds for every link of the snapshot the port on its
\* source switch and port_to_link the switch behind that port, and neither
\* holds anything else; the MAC tables, the Flow Cache and the live-switch
\* set are as before.
C28_RebuildReplacesWholesale ==
  [][ (last'.kind = "switch_enter") =>
        /\ SeqToSet(topology_graph'.nodes) =
             { NodeName(dpid) : dpid \in SnapSwitches' }
        /\ \A u, v \in SeqToSet(topology_graph'.nodes) :
             HasEdge(topology_graph', u, v) <=>
               \E link \in SnapLinks' :
                 {NodeName(link[1]), NodeName(link[3])} = {u, v}
        /\ DOMAIN link_to_port' =
             { <<link[1], link[3]>> : link \in SnapLinks' }
        /\ DOMAIN port_to_link' =
             { <<link[1], link[2]>> : link \in SnapLinks' }
        /\ \A link \in SnapLinks' :
             /\ link_to_port'[<<link[1], link[3]>>] = link[2]
             /\ port_to_link'[<<link[1], link[2]>>] = link[3]
        /\ <<mac_to_switch, mac_to_port, flow_to_path, datapaths>>' =
           <<mac_to_switch, mac_to_port, flow_to_path, datapaths>>
    ]_vars

\* C28: a rebuild dropped the port mapping of a direction that the link
\* notification had stored and the snapshot does not report, while hosts
\* were learned and a path was cached
C28_Witness ==
  /\ last.kind = "switch_enter"
  /\ \E link \in SnapLinks : <<link[3], link[1]>> \notin DOMAIN link_to_port
  /\ mac_to_switch # <<>>
  /\ flow_to_path # <<>>

\* the entry of the weight matrix for the pair, 0 when the configuration
\* does not name both switches
MatrixEntry(u, v) ==
  IF \E i, j \in 1..Len(ConfigNodes) : ConfigNodes[i] = u /\ ConfigNodes[j] = v
  THEN LET i == CHOOSE i \in 1..Len(ConfigNodes) : ConfigNodes[i] = u
           j == CHOOSE j \in 1..Len(ConfigNodes) : ConfigNodes[j] = v
       IN  ConfigWeights[i][j]
  ELSE 0

\* C29: every edge of the discovered graph (edges are placed by the rebuild
\* only) carries the weight-matrix entry of its two switches when that
\* entry is positive, and 1 otherwise.
C29_RebuildWeightFromMatrixElseOne ==
  \A u, v \in SeqToSet(topology_graph.nodes) :
    HasEdge(topology_graph, u, v) =>
      EdgeWeight(topology_graph, u, v) =
        IF MatrixEntry(u, v) > 0 THEN MatrixEntry(u, v) ELSE 1

\* C29: a rebuild placed a link with a configured weight other than 1
\* (s1 - s3) and a link to a switch the configuration does not name
\* (s3 - s4)
C29_Witness ==
  /\ last.kind = "switch_enter"
  /\ HasEdge(topology_graph, NodeName(1), NodeName(3))
  /\ MatrixEntry(NodeName(1), NodeName(3)) = 2
  /\ HasEdge(topology_graph, NodeName(3), NodeName(4))
  /\ MatrixEntry(NodeName(3), NodeName(4)) = 0

(***************************************************************************)
(* SpecLeave: Spec with switches losing their OpenFlow connection.         *)
(* ryu.topology takes the switch and its links out of what get_switch and  *)
(* get_link return; the application handles neither EventSwitchLeave nor   *)
(* a state change of the datapath, so none of its handlers runs.           *)
(***************************************************************************)
SwitchLeave(dpid) ==
  /\ dpid \in connected
  /\ dpid \in SeqToSet(ryu_switches)
  /\ connected' = connected \ {dpid}
  /\ ryu_switches' = SelectSeq(ryu_switches, LAMBDA d : d # dpid)
  /\ ryu_links' = SelectSeq(ryu_links, LAMBDA l : l[1] # dpid /\ l[3] # dpid)
  /\ last' = Event("switch_leave", dpid, 0, NoPkt, <<>>, <<>>, "none", FALSE,
                   "none")
  /\ UNCHANGED <<ctl, npkt, ntopo, learn_log, pvars, hub, lsw, hpos, tables>>

NextLeave ==
  \/ \E dpid \in Switches :
       Scheduled("features", dpid) /\ SwitchFeatures(dpid)
  \/ \E dpid \in Switches :
       Scheduled("enter", dpid) /\ SwitchEnter(dpid)
  \/ \E link \in PhysLinks :
       Scheduled("link", link) /\ LinkAdd(link)
  \/ \E dpid \in Switches : SwitchLeave(dpid)
  \/ \E dpid \in connected : \E in_port \in PortsOf(dpid) :
       \E pkt \in Packets : npkt < MaxPkts /\ PacketIn(dpid, in_port, pkt)

SpecLeave == Init /\ [][NextLeave]_vars

\* C30: a switch whose connection is gone is not in the live-switch set
\* (datapaths), and no notification makes the controller send a flow-mod to
\* a switch whose connection is gone.
C30_DisconnectedSwitchNotLive ==
  /\ \A dpid \in datapaths : dpid \in connected
  /\ \A i \in 1..Len(last.mods) : last.mods[i].dpid \in connected

\* a packet-in after s2 lost its connection: the path runs through s2 and
\* the installer hands a flow-mod to the datapath object of s2
FlowModToGoneSwitch ==
  /\ last.kind = "packet_in"
  /\ \E i \in 1..Len(last.mods) : last.mods[i].dpid \notin connected

(***************************************************************************)
(* SpecMix: the notifications in any order.  Switches join and join again, *)
(* links are reported and dropped, the topology is rebuilt, and packet-ins *)
(* of every joined switch arrive in between; Ryu hands the application one *)
(* notification at a time.                                                 *)
(***************************************************************************)
MaxMixTopo == 6

MixPackets ==
  FlowPackets
  \cup UNION { {Frame("ARP", s, d, NoTcp) : d \in HostMacs \ {s}} :
                s \in HostMacs }

NextMix ==
  \/ \E dpid \in Switches : ntopo < MaxMixTopo /\ SwitchFeatures(dpid)
  \/ \E dpid \in Switches : ntopo < MaxMixTopo /\ SwitchEnter(dpid)
  \/ \E link \in PhysLinks : ntopo < MaxMixTopo /\ LinkAdd(link)
  \/ \E link \in PhysLinks : ntopo < MaxMixTopo /\ LinkDelete(link)
  \/ \E dpid \in Switches : \E in_port \in PortsOf(dpid) :
       \E pkt \in MixPackets : npkt < MaxPkts /\ PacketIn(dpid, in_port, pkt)

SpecMix == Init /\ [][NextMix]_vars

\* C32: for every MAC of mac_to_switch, mac_to_port has the switch it is
\* located at and, under that switch, the MAC; and no packet-in ends with
\* a KeyError of a lookup.
C32_MacTableConsistent ==
  /\ \A m \in DOMAIN mac_to_switch :
       /\ mac_to_switch[m] \in DOMAIN mac_to_port
       /\ m \in DOMAIN mac_to_port[mac_to_switch[m]]
  /\ last.error # "KeyError"

\* C32: switches joined, a link was reported and the topology rebuilt;
\* a host was learned on one switch and the last packet-in, of another
\* switch, looked it up as its destination and got a path to it
C32_Witness ==
  /\ last.kind = "packet_in"
  /\ last.outcome = "install-and-output"
  /\ last.pkt.dst \in DOMAIN mac_to_switch
  /\ mac_to_switch[last.pkt.dst] # last.dpid
  /\ last.pkt.dst \in DOMAIN mac_to_port[mac_to_switch[last.pkt.dst]]
  /\ link_to_port # <<>>

\* the entries <<dpid, MAC, port>> of mac_to_port
TableEntries(mtp) ==
  UNION { { <<dpid, m, mtp[dpid][m]>> : m \in DOMAIN mtp[dpid] } :
          dpid \in DOMAIN mtp }

\* the entries whose port is a key of port_to_link
OnLinkPort == { e \in TableEntries(mac_to_port) :
                  <<e[1], e[3]>> \in DOMAIN port_to_link }

\* C33 as stated: no entry of the MAC Location Table maps a switch and a
\* MAC to a port that is a key of port_to_link.
C33_NoEntryOnLinkPort == OnLinkPort = {}

\* C33: an entry is written only for a port that is no key of port_to_link
\* when the packet-in is handled, and the link and rebuild handlers leave
\* the table as it is: an entry learned on a port before its link was
\* reported stays when the port becomes a key of port_to_link.
C33_LearnedOffLinkPortsNeverPurged ==
  [][ /\ \A e \in TableEntries(mac_to_port') \ TableEntries(mac_to_port) :
           <<e[1], e[3]>> \notin DOMAIN port_to_link
      /\ (last'.kind \in {"link_add", "switch_enter"}) =>
           /\ mac_to_switch' = mac_to_switch
           /\ mac_to_port' = mac_to_port
    ]_vars

\* C33: the link notification just handled made a port a key of
\* port_to_link on which a host had been learned before
C33_Witness ==
  /\ last.kind = "link_add"
  /\ \E e \in OnLinkPort : e[1] = last.dpid /\ e[3] = last.in_port

\* C34: every Flow Cache entry whose key has different ingress and egress
\* switches holds a path of at least two switches from the ingress switch
\* to the egress switch, and get_outport, called for the switch of the
\* packet-in with the path stored under its key, finds that switch in the
\* path before its last position.
C34_CachedPathFromIngressToEgress ==
  /\ \A key \in DOMAIN flow_to_path :
       key[1] # key[2] =>
         LET path == flow_to_path[key]
         IN  /\ Len(path) >= 2
             /\ path[1] = NodeName(key[1])
             /\ path[Len(path)] = NodeName(key[2])
  /\ (CrossKnown /\ LastKey \in DOMAIN flow_to_path) =>
       LET path == flow_to_path[LastKey]
       IN  /\ NodeName(last.dpid) \in SeqToSet(path)
           /\ IndexOf(path, NodeName(last.dpid)) < Len(path)

\* C34: the packet-in handled last was sent on along a cached path of
\* three switches
C34_Witness ==
  /\ CrossKnown
  /\ LastKey \in DOMAIN flow_to_path
  /\ LastKey[1] # LastKey[2]
  /\ Len(flow_to_path[LastKey]) = 3
  /\ last.outcome = "install-and-output"

\* what the resolver returns for the packet-in handled last: the paths from
\* its switch to the switch the destination is located at, or the exception
LastResolution ==
  AllShortestPaths(graph_to_use, NodeName(last.dpid),
                   NodeName(mac_to_switch[last.pkt.dst]))

\* C35: a packet-in for a destination learned on another switch, whose key
\* is not in the Flow Cache and for which the resolver raises (no path, or
\* a switch that is no node of the graph), leaves the Flow Cache as it was
\* and sends no flow-mod.
C35_FailedResolutionCachesAndInstallsNothing ==
  [][ (/\ CrossKnown'
       /\ LastKey' \notin DOMAIN flow_to_path
       /\ AllShortestPaths(graph_to_use, NodeName(last'.dpid),
                           NodeName(mac_to_switch'[last'.pkt.dst])).err
            # "none")
        => /\ flow_to_path' = flow_to_path
           /\ last'.mods = <<>> ]_vars

\* C35: with a path in the Flow Cache already, the resolver found no path
\* between two switches of the discovered graph for another key
C35_Witness ==
  /\ CrossKnown
  /\ last.resolved
  /\ LastKey \notin DOMAIN flow_to_path
  /\ LastResolution.err = "NetworkXNoPath"
  /\ flow_to_path # <<>>

\* the notifying switch is no node of the discovered graph
ResolutionNodeNotFound ==
  /\ CrossKnown
  /\ last.resolved
  /\ LastKey \notin DOMAIN flow_to_path
  /\ LastResolution.err = "NodeNotFound"

\* C36: a packet-in whose key is not in the Flow Cache gets its path from
\* the discovered graph when that graph has a node, and from the configured
\* graph when it has none: when the resolver finds paths there, one of them
\* is stored under the key.  A stored path stays under its key as it is,
\* and a packet-in whose key is in the cache does not run the resolver,
\* whatever graph the path came from and whatever was discovered since.
C36_ConfigGraphOnlyWhileNothingDiscovered ==
  [][ /\ (CrossKnown' /\ LastKey' \notin DOMAIN flow_to_path) =>
           LET G == IF NumberOfNodes(topology_graph) > 0
                    THEN topology_graph ELSE graph
               r == AllShortestPaths(G, NodeName(last'.dpid),
                                     NodeName(mac_to_switch'[last'.pkt.dst]))
           IN  /\ last'.resolved
               /\ IF r.err = "none"
                  THEN /\ LastKey' \in DOMAIN flow_to_path'
                       /\ flow_to_path'[LastKey'] \in SeqToSet(r.paths)
                  ELSE flow_to_path' = flow_to_path
      /\ \A key \in DOMAIN flow_to_path :
           /\ key \in DOMAIN flow_to_path'
           /\ flow_to_path'[key] = flow_to_path[key]
      /\ (CrossKnown' /\ LastKey' \in DOMAIN flow_to_path) => ~last'.resolved
    ]_vars

\* C36: switches have been discovered since, and the packet-in handled
\* last took from the Flow Cache a path resolved over the configured graph:
\* it runs over an edge the configuration has and the discovered graph
\* has not
C36_Witness ==
  /\ CrossKnown
  /\ ~last.resolved
  /\ LastKey \in DOMAIN flow_to_path
  /\ NumberOfNodes(topology_graph) > 0
  /\ LET path == flow_to_path[LastKey]
     IN  /\ HasEdge(graph, path[1], path[2])
         /\ ~HasEdge(topology_graph, path[1], path[2])

(***************************************************************************)
(* SpecRun: SpecSteps with the loop of install_path_rules (296-337) taken  *)
(* one switch of the path at a time.  hpos.i is the number of switches the *)
(* loop has dealt with.  A handler that has begun is a running greenlet:   *)
(* it has no statement that waits for a reply of a switch (add_flow and    *)
(* the packet-out hand their message to send_msg and go on), so it keeps   *)
(* taking its next statement; that is the fairness condition.              *)
(***************************************************************************)

\* lines 296-337, one iteration: path[hpos.i + 1]
StepHop ==
  /\ hpos.at = "memoized"
  /\ hpos.i < Len(hpos.path)
  /\ LET sent == InstallHop(hpos.path, hpos.i + 1, hpos.pkt.dst,
                            hpos.dst_port, hpos.pkt.tcp)
     IN  /\ hpos' = [hpos EXCEPT !.i = @ + 1, !.mods = @ \o sent]
         /\ tables' = ApplyMods(tables, sent)
  /\ UNCHANGED <<ctl, env, last, npkt, ntopo, learn_log, pvars, hub, lsw>>

\* line 340: the loop is through, install_path_rules returns
StepHopsDone ==
  /\ hpos.at = "memoized"
  /\ hpos.i = Len(hpos.path)
  /\ hpos' = [hpos EXCEPT !.at = "installed", !.completed = @ \cup {hpos.key}]
  /\ UNCHANGED <<ctl, env, last, npkt, ntopo, learn_log, pvars, hub, lsw,
                 tables>>

HandlerSteps == StepMemoize \/ StepHop \/ StepHopsDone \/ StepForward

NextRun ==
  \/ \E dpid \in Switches :
       hpos.at = "idle" /\ Scheduled("features", dpid) /\ SwitchFeatures(dpid)
  \/ \E dpid \in Switches :
       hpos.at = "idle" /\ Scheduled("enter", dpid) /\ SwitchEnter(dpid)
  \/ \E link \in PhysLinks :
       hpos.at = "idle" /\ Scheduled("link", link) /\ LinkAdd(link)
  \/ \E dpid \in Switches : \E in_port \in PortsOf(dpid) :
       \E pkt \in Packets :
         /\ hpos.at = "idle"
         /\ npkt < MaxPkts
         /\ ~MissOf(dpid, in_port, pkt).miss
         /\ PacketIn(dpid, in_port, pkt)
  \/ \E dpid \in Switches : \E in_port \in PortsOf(dpid) :
       \E pkt \in Packets : StepResolve(dpid, in_port, pkt)
  \/ StepMemoize
  \/ StepHop
  \/ StepHopsDone
  \/ StepForward

SpecRun == Init /\ [][NextRun]_vars /\ WF_vars(HandlerSteps)

\* the flow-mods are for different switches, all of them switches of path
OnePerSwitchOf(mods, path) ==
  /\ \A j, k \in 1..Len(mods) : j # k => mods[j].dpid # mods[k].dpid
  /\ \A j \in 1..Len(mods) : NodeName(mods[j].dpid) \in SeqToSet(path)
  /\ Len(mods) <= Len(path)

\* C31: a packet-in handler that has begun reaches its end; the loop of
\* install_path_rules makes at most as many iterations as the path has
\* switches and sends at most one flow-mod per switch of the path, and a
\* packet-in sends at most one packet-out.
C31_PacketInRunsToCompletion ==
  /\ [](/\ hpos.i <= Len(hpos.path)
        /\ OnePerSwitchOf(hpos.mods, hpos.path)
        /\ (last.kind = "packet_in" =>
              /\ Len(last.out) <= 1
              /\ (last.mods # <<>> =>
                    OnePerSwitchOf(last.mods, flow_to_path[LastKey]))))
  /\ ((hpos.at # "idle") ~> (hpos.at = "idle"))

\* C31: the handler stands inside the loop of install_path_rules for a path
\* of three switches, two of them dealt with and two flow-mods sent
C31_Witness ==
  /\ hpos.at = "memoized"
  /\ Len(hpos.path) = 3
  /\ hpos.i = 2
  /\ Len(hpos.mods) = 2

=============================================================================
